---- MODULE Spec2Model ----
(***************************************************************************)
(* Control plane of the sandbox deployment controller: the deploy and      *)
(* teardown webhook handlers (api/deployments.py), the container driver    *)
(* (services/docker.py) and the TTL reaper (services/cleanup.py).          *)
(*                                                                         *)
(* Strings that the code takes apart (container names, the prefix) are     *)
(* sequences of one-character strings, so that startswith and slicing are  *)
(* computed.  Time is counted in whole minutes.  Coroutine code between    *)
(* two awaits is one step; each engine call made on a worker thread is one *)
(* step, and may raise an engine error.                                    *)
(***************************************************************************)
EXTENDS Integers, Sequences, FiniteSets, TLC

\* ------------------------------------------------------------- bounds
MaxTime == 1
MaxCid == 2
MaxCasts == 3
MaxRecords == 2
MaxArtifacts == 2
MaxLines == 2

\* ---------------------------------------------------- program constants
CONTAINER_PREFIX == <<"s", "a", "n", "d", "b", "o", "x">>
default_ttl_minutes == 60
DeploymentTtlDefault == 60
retry_count_default == 3
history_limit == 100
GetHistoryLimitDefault == 20
ListLimitDefault == 100

\* ------------------------------------------------------ input domains
Ids == {<<"a">>, <<"b">>}
GhostId == <<"g">>
Images == {"img1", "img2"}
TTLInputs == {-1, 0, 1}
RequestIds == {<<"a">>}
Handlers == {"h1", "h2"}
\* WEBHOOK_SECRET settings; an X-Sandbox-Secret header is <<>> when absent
Secrets == {"", "k1"}
Headers == {<<>>, <<"">>, <<"k1">>, <<"k2">>}
LoopTasks == {"t1", "t2"}
Runners == LoopTasks \cup {"direct"}
Sinks == {"s1", "s2"}
Publishers == {"p1", "p2"}
SendOutcomes == {"ok", "late", "raise"}
Urls == {"u1", "u2"}
HookInputs == {[url |-> "u1", events |-> {"on_start", "on_stop"}],
               [url |-> "u2", events |-> {"on_start"}]}
LifecycleEvents == {"on_start", "on_stop"}
Emitters == {"e1"}
StoreCallers == {"c1", "c2"}
SchemaCallers == StoreCallers
Streamers == {"g1"}
\* the characters of a log line: "x" is printable, "BAD" is a byte that is
\* no UTF-8
Whitespace == {" ", "\n"}
LogLines == {<<"x", "\n">>, <<" ", "x", " ", "x", "\n">>, <<" ", "\n">>, <<>>, <<"x", "BAD", "\n">>}
OpenOutcomes == {"ok", "not_found", "error"}
Filenames == {"f"}
Contents == {<<>>, <<1>>, <<1, 2>>}
DiskContents == {<<2>>}
WriteOutcomes == {"ok", "open_fails", "partial"}
PostOutcomes ==
    {[kind |-> "status", code |-> 200], [kind |-> "status", code |-> 500],
     [kind |-> "timeout", code |-> 0], [kind |-> "connerr", code |-> 0],
     [kind |-> "exception", code |-> 0]}

\* ------------------------------------------------------------ helpers
\* f"{settings.CONTAINER_PREFIX}-{deployment_id}"
ContainerName(deployment_id) == CONTAINER_PREFIX \o <<"-">> \o deployment_id

\* container_name.startswith(f"{settings.CONTAINER_PREFIX}-")
StartsWithPrefix(name) ==
    LET p == CONTAINER_PREFIX \o <<"-">>
    IN  Len(name) >= Len(p) /\ SubSeq(name, 1, Len(p)) = p

\* container_name[len(settings.CONTAINER_PREFIX) + 1:]
DeploymentIdOf(name) == SubSeq(name, Len(CONTAINER_PREFIX) + 2, Len(name))

\* names an external process gives its containers: with and without prefix
ExtNames == {ContainerName(GhostId), GhostId}

Remove(f, k) == [x \in (DOMAIN f) \ {k} |-> f[x]]
Put(f, k, v) == [x \in (DOMAIN f) \cup {k} |-> IF x = k THEN v ELSE f[x]]

VARIABLES
    containers,   \* the engine: container name -> [id, sandbox, path_prefix, image]
    nextCid,      \* the engine's next fresh container id
    deployments,  \* api/deployments.py _deployments: id -> Deployment
    tracked,      \* CleanupService._deployments, in insertion order
    now,          \* the clock, in minutes
    handlers,     \* the webhook request handlers in flight
    runners,      \* the run_cleanup calls in flight (loop tasks and direct calls)
    running,      \* CleanupService._running
    task,         \* CleanupService._task ("none" or a loop task)
    stopper,      \* the caller of stop_background_cleanup: "idle" or the awaited task
    stray,        \* engine calls that an abandoned worker thread will still make
    failedEver    \* history: ids whose teardown raised in some expire phase

VARIABLES
    webhook_secret,  \* settings.WEBHOOK_SECRET
    connections,     \* ConnectionManager.connections: deployment id -> sinks
    sinks,           \* each WebSocket: "new", "open", "closed" (by the client), "gone"
    inbox,           \* the broadcast events each WebSocket has received, in order
    casts,           \* the broadcast calls, in the order they were made
    hooks,           \* LifecycleService._hooks: deployment id -> WebhookConfigs
    history,         \* LifecycleService._history: deployment id -> HookInvocations
    emits,           \* the emit calls in flight
    files,           \* the artifact directory: path -> content
    rows,            \* the artifacts table: id -> row
    nextArtifact,    \* the next fresh artifact id (uuid4)
    storeOps,        \* the storage calls in flight
    saved,           \* history: artifact id -> what its save wrote and returned
    touched,         \* history: artifact ids deleted or altered on disk since
    streams,         \* the _stream_logs generators: position, frames yielded, lines read
    initialized,     \* StorageService._initialized
    schema,          \* the tables and indexes of the artifacts database
    starters         \* the store operations on their way through initialize()

CoreVars == <<containers, nextCid, deployments, tracked, now, handlers, runners,
              running, task, stopper, stray, failedEver>>
BusVars == <<connections, sinks, inbox, casts>>
HookVars == <<hooks, history, emits>>
StoreVars == <<files, rows, nextArtifact, storeOps, saved, touched>>
LogVars == <<streams>>
SchemaVars == <<initialized, schema, starters>>
OtherVars == <<webhook_secret, BusVars, HookVars, StoreVars, LogVars, SchemaVars>>

vars == <<CoreVars, OtherVars>>

\* ------------------------------------------------------------- engine
\* client.containers.get(name): the container's id, 0 for NotFound
GetId(name) == IF name \in DOMAIN containers THEN containers[name].id ELSE 0

\* container.remove(force=True) on the object got earlier: removal is by id,
\* and a container that is gone answers NotFound, which every caller swallows
RemoveById(cs, name, id) ==
    IF name \in DOMAIN cs /\ cs[name].id = id THEN Remove(cs, name) ELSE cs

RECURSIVE ByIdDesc(_, _)
ByIdDesc(cs, names) ==
    IF names = {} THEN <<>>
    ELSE LET n == CHOOSE x \in names : \A y \in names : cs[x].id >= cs[y].id
         IN  <<n>> \o ByIdDesc(cs, names \ {n})

\* client.containers.list(filters={"label": "sandbox.deployment=true"}),
\* newest first; only the names are read by the callers modelled here
ListSandboxContainers(cs) ==
    ByIdDesc(cs, {n \in DOMAIN cs : cs[n].sandbox})

\* ----------------------------------------------------- reaper tracking
TrackedIds(tr) == {tr[i].id : i \in 1..Len(tr)}

TrackedEntry(tr, k) == tr[CHOOSE i \in 1..Len(tr) : tr[i].id = k]

\* self._deployments[deployment_id] = (created_at, ttl): a dict keeps the
\* position of a key that is assigned again
RegisterEntry(tr, k, created_at, ttl) ==
    IF k \in TrackedIds(tr)
    THEN [i \in 1..Len(tr) |->
            IF tr[i].id = k THEN [id |-> k, created_at |-> created_at, ttl |-> ttl]
            ELSE tr[i]]
    ELSE Append(tr, [id |-> k, created_at |-> created_at, ttl |-> ttl])

\* unregister_deployment
UnregisterEntry(tr, k) == SelectSeq(tr, LAMBDA e : e.id # k)

\* the test of get_expired_deployments for one entry
IsExpired(e, t) ==
    IF e.ttl = 0 THEN FALSE
    ELSE (t - e.created_at) >= e.ttl

\* get_expired_deployments
GetExpired(tr, t) ==
    LET sel == SelectSeq(tr, LAMBDA e : IsExpired(e, t))
    IN  [i \in 1..Len(sel) |-> sel[i].id]

\* ----------------------------------------------------------- results
EmptyResult ==
    [expired_count |-> 0, orphan_count |-> 0, failed_count |-> 0,
     containers_removed |-> <<>>, errors |-> <<>>]

\* the combination made by run_cleanup
Combine(er, orr) ==
    [expired_count |-> er.expired_count,
     orphan_count |-> orr.orphan_count,
     failed_count |-> er.failed_count + orr.failed_count,
     containers_removed |-> er.containers_removed \o orr.containers_removed,
     errors |-> er.errors \o orr.errors]

\* ------------------------------------------------------------- Init
IdleHandler ==
    [pc |-> "idle", op |-> "none", id |-> <<"a">>, image |-> "img1",
     existing |-> 0, cid |-> 0, fault |-> FALSE, resp |-> "none", header |-> <<>>]

IdleStarter == [pc |-> "idle", entered_initialized |-> FALSE, statements |-> 0, result |-> "none"]

IdleRunner ==
    [pc |-> "idle", expired |-> <<>>, idx |-> 0, listing |-> <<>>,
     tracked_ids |-> {}, existing |-> 0,
     er |-> EmptyResult, orr |-> EmptyResult, result |-> EmptyResult]

IdleSink == [state |-> "new", dep |-> <<"a">>]

InitOther ==
    /\ connections = <<>>
    /\ sinks = [s \in Sinks |-> IdleSink]
    /\ inbox = [s \in Sinks |-> <<>>]
    /\ casts = <<>>
    /\ hooks = <<>>
    /\ history = <<>>
    /\ emits = [e \in Emitters |-> [pc |-> "idle", dep |-> <<"a">>, event |-> "on_start",
                                    invs |-> <<>>, result |-> <<>>]]
    /\ files = <<>>
    /\ rows = <<>>
    /\ nextArtifact = 1
    /\ storeOps = [c \in StoreCallers |->
            [pc |-> "idle", op |-> "none", id |-> 0, dep |-> <<"a">>, filename |-> "f",
             content |-> <<>>, path |-> <<>>, sha256 |-> <<>>, row |-> <<>>,
             hadRow |-> FALSE, fault |-> FALSE, resp |-> "none",
             result |-> [kind |-> "none", items |-> <<>>, content |-> <<>>, ok |-> FALSE]]]
    /\ saved = <<>>
    /\ touched = {}
    /\ streams = [g \in Streamers |->
            [pc |-> "idle", frames |-> <<>>, consumed |-> <<>>, open |-> "none",
             exception |-> FALSE]]
    /\ initialized = FALSE
    /\ schema = {}
    /\ starters = [c \in StoreCallers |-> IdleStarter]

InitCore ==
    /\ containers = <<>>
    /\ nextCid = 1
    /\ deployments = <<>>
    /\ tracked = <<>>
    /\ now = 0
    /\ handlers = [h \in Handlers |-> IdleHandler]
    /\ runners = [r \in Runners |-> IdleRunner]
    /\ running = FALSE
    /\ task = "none"
    /\ stopper = "idle"
    /\ stray = {}
    /\ failedEver = {}

Init ==
    /\ webhook_secret = ""
    /\ InitOther
    /\ InitCore

\* a service configured with or without a webhook secret
InitAuth ==
    /\ webhook_secret \in Secrets
    /\ InitOther
    /\ InitCore

\* ------------------------------------------------ webhook handlers
HandlerVars == <<running, task, stopper, stray, runners, tracked, now, failedEver, OtherVars>>

\* handlers that may still create a container
Reserved == Cardinality({h \in Handlers : handlers[h].pc \in {"d_get", "d_remove", "d_run"}})

\* the except branch of deploy_container and of teardown_container
Fail(rec, resp, injected) ==
    [rec EXCEPT !.pc = "done", !.resp = resp, !.fault = injected]

\* the Deployment stored by deploy_container (of its fields, those that a
\* modelled operation reads; ttl_minutes is not passed and takes its default)
NewDeployment(k, img, cid) ==
    [id |-> k, path_prefix |-> k, image |-> img, container_id |-> cid,
     status |-> "running", ttl_minutes |-> DeploymentTtlDefault]

\* the container made by client.containers.run in DockerService.deploy
NewContainer(cid, path_prefix, img) ==
    [id |-> cid, sandbox |-> TRUE, path_prefix |-> path_prefix, image |-> img]

\* deploy_container up to its first await
\* mutant: a request without the header passes
VerifySecretIgnoresAbsent(secret, header) ==
    secret # "" /\ header # <<>> /\ header # <<secret>>

\* _verify_secret raises 401
VerifySecretRaises(secret, header) == secret # "" /\ header # <<secret>>

\* deploy_container up to its first await: _verify_secret, then the id
DeployRequest(h, k, img, header) ==
    /\ handlers[h].pc = "idle"
    /\ IF VerifySecretRaises(webhook_secret, header)
       THEN handlers' = [handlers EXCEPT ![h] =
                [IdleHandler EXCEPT !.pc = "done", !.op = "deploy", !.id = k, !.image = img,
                                    !.header = header, !.resp = "401"]]
       ELSE /\ nextCid + Reserved <= MaxCid
            /\ handlers' = [handlers EXCEPT ![h] =
                    [IdleHandler EXCEPT !.pc = "d_get", !.op = "deploy", !.id = k,
                                        !.image = img, !.header = header]]
    /\ UNCHANGED <<containers, nextCid, deployments, HandlerVars>>

\* a deploy request that carries no X-Sandbox-Secret header
DeployStart(h, k, img) == DeployRequest(h, k, img, <<>>)

\* _deploy: images.pull (a failure is logged and ignored), containers.get
DeployGet(h, fault) ==
    LET rec == handlers[h]
        found == GetId(ContainerName(rec.id))
    IN  /\ rec.pc = "d_get"
        /\ handlers' = [handlers EXCEPT ![h] =
                IF fault THEN Fail(rec, "failed", TRUE)
                ELSE IF found # 0 THEN [rec EXCEPT !.pc = "d_remove", !.existing = found]
                ELSE [rec EXCEPT !.pc = "d_run"]]
        /\ UNCHANGED <<containers, nextCid, deployments, HandlerVars>>

\* mutant: the existing container is left in place
DeployKeepExisting(cs, name, id) == cs

\* what _deploy does with the container it found: existing.remove(force=True)
DeployRemoveExisting(cs, name, id) == RemoveById(cs, name, id)

\* _deploy: existing.remove(force=True)
DeployRemove(h, fault) ==
    LET rec == handlers[h]
    IN  /\ rec.pc = "d_remove"
        /\ handlers' = [handlers EXCEPT ![h] =
                IF fault THEN Fail(rec, "failed", TRUE)
                ELSE [rec EXCEPT !.pc = "d_run"]]
        /\ containers' = IF fault THEN containers
                         ELSE DeployRemoveExisting(containers, ContainerName(rec.id), rec.existing)
        /\ UNCHANGED <<nextCid, deployments, HandlerVars>>

\* _deploy: client.containers.run; the engine refuses a name that is in use
DeployRun(h, fault) ==
    LET rec == handlers[h]
        name == ContainerName(rec.id)
        refused == fault \/ name \in DOMAIN containers
    IN  /\ rec.pc = "d_run"
        /\ handlers' = [handlers EXCEPT ![h] =
                IF refused THEN Fail(rec, "failed", fault)
                ELSE [rec EXCEPT !.pc = "d_store", !.cid = nextCid]]
        /\ containers' = IF refused THEN containers
                         ELSE Put(containers, name, NewContainer(nextCid, rec.id, rec.image))
        /\ nextCid' = IF refused THEN nextCid ELSE nextCid + 1
        /\ UNCHANGED <<deployments, HandlerVars>>

\* deploy_container after the await: store the record, answer deployed
DeployStore(h) ==
    LET rec == handlers[h]
    IN  /\ rec.pc = "d_store"
        /\ deployments' = Put(deployments, rec.id,
                              NewDeployment(rec.id, rec.image, rec.cid))
        /\ handlers' = [handlers EXCEPT ![h] = [rec EXCEPT !.pc = "done", !.resp = "deployed"]]
        /\ UNCHANGED <<containers, nextCid, HandlerVars>>

\* teardown_container up to its await
\* teardown_container up to its first await: _verify_secret
TeardownRequest(h, k, header) ==
    /\ handlers[h].pc = "idle"
    /\ handlers' = [handlers EXCEPT ![h] =
            IF VerifySecretRaises(webhook_secret, header)
            THEN [IdleHandler EXCEPT !.pc = "done", !.op = "teardown", !.id = k,
                                     !.header = header, !.resp = "401"]
            ELSE [IdleHandler EXCEPT !.pc = "t_get", !.op = "teardown", !.id = k,
                                     !.header = header]]
    /\ UNCHANGED <<containers, nextCid, deployments, HandlerVars>>

\* a teardown request that carries no X-Sandbox-Secret header
TeardownStart(h, k) == TeardownRequest(h, k, <<>>)

\* mutant: NotFound is not caught and reaches the handler's except branch
TeardownNotFoundFatal(rec, found) ==
    IF found # 0 THEN [rec EXCEPT !.pc = "t_remove", !.existing = found]
    ELSE [rec EXCEPT !.pc = "done", !.resp = "error500"]

\* DockerService.teardown: the handler's position after containers.get
\* (found: 0 for NotFound, which is logged and is no error)
TeardownAfterGet(rec, found) ==
    IF found # 0 THEN [rec EXCEPT !.pc = "t_remove", !.existing = found]
    ELSE [rec EXCEPT !.pc = "t_store"]

\* DockerService.teardown: containers.get
TeardownGet(h, fault) ==
    LET rec == handlers[h]
    IN  /\ rec.pc = "t_get"
        /\ handlers' = [handlers EXCEPT ![h] =
                IF fault THEN Fail(rec, "error500", TRUE)
                ELSE TeardownAfterGet(rec, GetId(ContainerName(rec.id)))]
        /\ UNCHANGED <<containers, nextCid, deployments, HandlerVars>>

\* DockerService.teardown: container.remove(force=True)
TeardownRemove(h, fault) ==
    LET rec == handlers[h]
    IN  /\ rec.pc = "t_remove"
        /\ handlers' = [handlers EXCEPT ![h] =
                IF fault THEN Fail(rec, "error500", TRUE)
                ELSE [rec EXCEPT !.pc = "t_store"]]
        /\ containers' = IF fault THEN containers
                         ELSE RemoveById(containers, ContainerName(rec.id), rec.existing)
        /\ UNCHANGED <<nextCid, deployments, HandlerVars>>

\* teardown_container after the await: drop the record, answer removed
TeardownStore(h) ==
    LET rec == handlers[h]
    IN  /\ rec.pc = "t_store"
        /\ deployments' = IF rec.id \in DOMAIN deployments
                          THEN Remove(deployments, rec.id) ELSE deployments
        /\ handlers' = [handlers EXCEPT ![h] = [rec EXCEPT !.pc = "done", !.resp = "removed"]]
        /\ UNCHANGED <<containers, nextCid, HandlerVars>>

\* the response is sent; the handler can take the next request
HandlerReturn(h) ==
    /\ handlers[h].pc = "done"
    /\ handlers' = [handlers EXCEPT ![h] = IdleHandler]
    /\ UNCHANGED <<containers, nextCid, deployments, HandlerVars>>

\* ----------------------------------------------------- TTL reaper
ReaperVars == <<nextCid, deployments, now, handlers, running, task, stopper, stray, OtherVars>>
CycleVars == <<ReaperVars, failedEver>>

\* register_deployment: ttl_minutes None (given = FALSE) takes the default
RegisterDeployment(k, ttl_minutes, given) ==
    LET ttl == IF given THEN ttl_minutes ELSE default_ttl_minutes
    IN  /\ tracked' = RegisterEntry(tracked, k, now, ttl)
        /\ tracked' # tracked
        /\ UNCHANGED <<containers, runners, CycleVars>>

\* unregister_deployment called from outside the reaper
UnregisterDeployment(k) ==
    /\ k \in TrackedIds(tracked)
    /\ tracked' = UnregisterEntry(tracked, k)
    /\ UNCHANGED <<containers, runners, CycleVars>>

\* the orphan test of cleanup_orphans for one listed container
IsOrphan(name, tracked_ids) ==
    StartsWithPrefix(name) /\ DeploymentIdOf(name) \notin tracked_ids

\* cleanup_orphans: the next listed container, from index from on, that is
\* torn down (0: none); the containers skipped in between take no await
NextOrphan(listing, from, tracked_ids) ==
    LET hits == {i \in from..Len(listing) : IsOrphan(listing[i], tracked_ids)}
    IN  IF hits = {} THEN 0 ELSE CHOOSE i \in hits : \A j \in hits : i <= j

\* run_cleanup's end: the combined result
Finished(rec) ==
    [rec EXCEPT !.pc = "done", !.idx = 0, !.existing = 0,
                !.result = Combine(rec.er, rec.orr)]

\* cleanup_expired: on to the next expired deployment, or to cleanup_orphans
AfterExpire(rec) ==
    IF rec.idx < Len(rec.expired)
    THEN [rec EXCEPT !.pc = "e_get", !.idx = rec.idx + 1, !.existing = 0]
    ELSE [rec EXCEPT !.pc = "o_list", !.idx = 0, !.existing = 0]

\* cleanup_expired, the try branch after the awaited teardown
ExpireSucceeded(rec) ==
    LET name == ContainerName(rec.expired[rec.idx])
    IN  AfterExpire([rec EXCEPT
            !.er.expired_count = rec.er.expired_count + 1,
            !.er.containers_removed = Append(rec.er.containers_removed, name)])

\* cleanup_expired, the except branch
ExpireFailed(rec) ==
    LET name == ContainerName(rec.expired[rec.idx])
    IN  AfterExpire([rec EXCEPT
            !.er.failed_count = rec.er.failed_count + 1,
            !.er.errors = Append(rec.er.errors, name)])

\* mutant: the deployment is unregistered although its teardown raised
TrackedDroppedOnFailure(tr, k) == UnregisterEntry(tr, k)

\* the tracked map after a teardown of expired deployment k that raised
TrackedAfterFailure(tr, k) == tr

\* the tracked map after a teardown of expired deployment k that returned
TrackedAfterSuccess(tr, k) == UnregisterEntry(tr, k)

\* run_cleanup up to the first await of cleanup_expired (from: the position
\* of the caller, "idle" for a direct call, "l_sleep" for the loop task)
RunCleanupStart(r, from) ==
    LET expired == GetExpired(tracked, now)
    IN  /\ runners[r].pc = from
        /\ runners' = [runners EXCEPT ![r] =
                IF expired = <<>> THEN [IdleRunner EXCEPT !.pc = "o_list"]
                ELSE [IdleRunner EXCEPT !.pc = "e_get", !.expired = expired, !.idx = 1]]
        /\ UNCHANGED <<containers, tracked, CycleVars>>

\* cleanup_expired: teardown's containers.get
ExpireGet(r, fault) ==
    LET rec == runners[r]
        k == rec.expired[rec.idx]
        found == GetId(ContainerName(k))
    IN  /\ rec.pc = "e_get"
        /\ runners' = [runners EXCEPT ![r] =
                IF fault THEN ExpireFailed(rec)
                ELSE IF found # 0 THEN [rec EXCEPT !.pc = "e_remove", !.existing = found]
                ELSE ExpireSucceeded(rec)]
        /\ tracked' = IF fault THEN TrackedAfterFailure(tracked, k)
                      ELSE IF found # 0 THEN tracked
                      ELSE TrackedAfterSuccess(tracked, k)
        /\ failedEver' = IF fault THEN failedEver \cup {k} ELSE failedEver
        /\ UNCHANGED <<containers, ReaperVars>>

\* cleanup_expired: teardown's container.remove, then unregister_deployment
ExpireRemove(r, fault) ==
    LET rec == runners[r]
        k == rec.expired[rec.idx]
    IN  /\ rec.pc = "e_remove"
        /\ runners' = [runners EXCEPT ![r] =
                IF fault THEN ExpireFailed(rec) ELSE ExpireSucceeded(rec)]
        /\ containers' = IF fault THEN containers
                         ELSE RemoveById(containers, ContainerName(k), rec.existing)
        /\ tracked' = IF fault THEN TrackedAfterFailure(tracked, k)
                      ELSE TrackedAfterSuccess(tracked, k)
        /\ failedEver' = IF fault THEN failedEver \cup {k} ELSE failedEver
        /\ UNCHANGED ReaperVars

\* cleanup_orphans: list_sandbox_containers on the worker thread
OrphanList(r, fault) ==
    LET rec == runners[r]
    IN  /\ rec.pc = "o_list"
        /\ runners' = [runners EXCEPT ![r] =
                IF fault
                THEN Finished([rec EXCEPT !.orr.errors = Append(rec.orr.errors, <<"List failed">>)])
                ELSE [rec EXCEPT !.pc = "o_snap", !.listing = ListSandboxContainers(containers)]]
        /\ UNCHANGED <<containers, tracked, CycleVars>>

\* cleanup_orphans after the await: tracked_ids = set(self._deployments.keys()),
\* then the loop up to the first orphan
OrphanSnap(r) ==
    LET rec == runners[r]
        ids == TrackedIds(tracked)
        first == NextOrphan(rec.listing, 1, ids)
    IN  /\ rec.pc = "o_snap"
        /\ runners' = [runners EXCEPT ![r] =
                IF first = 0 THEN Finished([rec EXCEPT !.tracked_ids = ids])
                ELSE [rec EXCEPT !.pc = "o_get", !.tracked_ids = ids, !.idx = first]]
        /\ UNCHANGED <<containers, tracked, CycleVars>>

\* cleanup_orphans: on to the next orphan of the listing, or the end
AfterOrphan(rec) ==
    LET next == NextOrphan(rec.listing, rec.idx + 1, rec.tracked_ids)
    IN  IF next = 0 THEN Finished(rec)
        ELSE [rec EXCEPT !.pc = "o_get", !.idx = next, !.existing = 0]

\* cleanup_orphans, the try branch after the awaited teardown
OrphanSucceeded(rec) ==
    AfterOrphan([rec EXCEPT
        !.orr.orphan_count = rec.orr.orphan_count + 1,
        !.orr.containers_removed = Append(rec.orr.containers_removed, rec.listing[rec.idx])])

\* cleanup_orphans, the except branch
OrphanFailed(rec) ==
    AfterOrphan([rec EXCEPT
        !.orr.failed_count = rec.orr.failed_count + 1,
        !.orr.errors = Append(rec.orr.errors, rec.listing[rec.idx])])

\* cleanup_orphans: teardown's containers.get
OrphanGet(r, fault) ==
    LET rec == runners[r]
        found == GetId(rec.listing[rec.idx])
    IN  /\ rec.pc = "o_get"
        /\ runners' = [runners EXCEPT ![r] =
                IF fault THEN OrphanFailed(rec)
                ELSE IF found # 0 THEN [rec EXCEPT !.pc = "o_remove", !.existing = found]
                ELSE OrphanSucceeded(rec)]
        /\ UNCHANGED <<containers, tracked, CycleVars>>

\* cleanup_orphans: teardown's container.remove
OrphanRemove(r, fault) ==
    LET rec == runners[r]
    IN  /\ rec.pc = "o_remove"
        /\ runners' = [runners EXCEPT ![r] =
                IF fault THEN OrphanFailed(rec) ELSE OrphanSucceeded(rec)]
        /\ containers' = IF fault THEN containers
                         ELSE RemoveById(containers, rec.listing[rec.idx], rec.existing)
        /\ UNCHANGED <<tracked, CycleVars>>

\* cleanup_expired: DockerService() is called before any try; when
\* docker.from_env raises, the exception leaves cleanup_expired and run_cleanup
ExpiredDriverRaises(r, from) ==
    /\ runners[r].pc = from
    /\ runners' = [runners EXCEPT ![r] = [IdleRunner EXCEPT !.pc = "raised"]]
    /\ UNCHANGED <<containers, tracked, CycleVars>>

\* cleanup_orphans: DockerService() is called before the try around the
\* listing; its exception leaves run_cleanup and the expired result is lost
OrphanDriverRaises(r) ==
    /\ runners[r].pc = "o_list"
    /\ runners' = [runners EXCEPT ![r].pc = "raised"]
    /\ UNCHANGED <<containers, tracked, CycleVars>>

\* the caller of run_cleanup has its exception
RunCleanupRaised(r) ==
    /\ runners[r].pc = "raised"
    /\ runners' = [runners EXCEPT ![r] = IdleRunner]
    /\ UNCHANGED <<containers, tracked, CycleVars>>

\* a direct caller of run_cleanup has its result
RunCleanupReturn(r) ==
    /\ r \notin LoopTasks
    /\ runners[r].pc = "done"
    /\ runners' = [runners EXCEPT ![r] = IdleRunner]
    /\ UNCHANGED <<containers, tracked, CycleVars>>

\* ------------------------------------------------------ environment
\* an external process starts a sandbox-labelled container
ExternalCreate(name) ==
    /\ name \notin DOMAIN containers
    /\ nextCid + Reserved <= MaxCid
    /\ containers' = Put(containers, name, NewContainer(nextCid, GhostId, "ext"))
    /\ nextCid' = nextCid + 1
    /\ UNCHANGED <<deployments, tracked, now, handlers, runners, running, task,
                   stopper, stray, failedEver, OtherVars>>

\* a minute passes
Tick ==
    /\ now < MaxTime
    /\ now' = now + 1
    /\ UNCHANGED <<containers, nextCid, deployments, tracked, handlers, runners,
                   running, task, stopper, stray, failedEver, OtherVars>>

\* ------------------------------------------- background cleanup loop
LoopVars == <<containers, nextCid, deployments, tracked, now, handlers, failedEver, OtherVars>>

\* the engine calls of a cancelled task that its worker thread still makes:
\* cancelling the await does not stop the thread (id 0: containers.get is
\* still to come)
InFlight(rec) ==
    IF rec.pc \in {"e_get", "e_remove"}
    THEN {[name |-> ContainerName(rec.expired[rec.idx]), id |-> rec.existing]}
    ELSE IF rec.pc \in {"o_get", "o_remove"}
    THEN {[name |-> rec.listing[rec.idx], id |-> rec.existing]}
    ELSE {}

\* the slot the next loop task takes
FreeTask == IF runners["t1"].pc = "idle" THEN "t1" ELSE "t2"

\* start_background_cleanup; it returns at once when _running is set
StartBackgroundCleanup ==
    /\ ~running
    /\ runners[FreeTask].pc = "idle"
    /\ running' = TRUE
    /\ task' = FreeTask
    /\ runners' = [runners EXCEPT ![FreeTask] = [IdleRunner EXCEPT !.pc = "l_sleep"]]
    /\ UNCHANGED <<stopper, stray, LoopVars>>

\* mutant: the cancellation is caught like a failed driver call and the
\* cycle goes on
CancelledTaskGoesOn(rec) == rec

\* _cleanup_loop and run_cleanup under task.cancel(): CancelledError is no
\* Exception, so it passes the handlers of the cycle and ends the loop at
\* except asyncio.CancelledError: break
CancelledTask(rec) == IdleRunner

\* stop_background_cleanup up to its await: the cancelled task runs no
\* further code of the loop (its handlers catch Exception, not CancelledError)
StopBackgroundCleanup ==
    /\ stopper = "idle"
    /\ running' = FALSE
    /\ IF task = "none"
       THEN UNCHANGED <<runners, stray, stopper>>
       ELSE /\ runners' = [runners EXCEPT ![task] = CancelledTask(runners[task])]
            /\ stray' = stray \cup InFlight(runners[task])
            /\ stopper' = task
    /\ UNCHANGED <<task, LoopVars>>

\* stop_background_cleanup after the await: self._task = None
StopReturn ==
    /\ stopper # "idle"
    /\ task' = "none"
    /\ stopper' = "idle"
    /\ UNCHANGED <<running, runners, stray, LoopVars>>

\* _cleanup_loop: the sleep is over, run_cleanup starts
LoopWake(t) == RunCleanupStart(t, "l_sleep")

\* _cleanup_loop: the cycle is over, the while condition is tested
LoopBack(t) ==
    /\ t \in LoopTasks
    /\ runners[t].pc = "done"
    /\ runners' = [runners EXCEPT ![t] =
            IF running THEN [IdleRunner EXCEPT !.pc = "l_sleep"] ELSE IdleRunner]
    /\ UNCHANGED <<running, task, stopper, stray, LoopVars>>

\* a worker thread abandoned by a cancelled task makes its next engine call
StrayStep(s) ==
    /\ s \in stray
    /\ IF s.id = 0
       THEN /\ stray' = (stray \ {s}) \cup
                    (IF GetId(s.name) = 0 THEN {}
                     ELSE {[name |-> s.name, id |-> GetId(s.name)]})
            /\ UNCHANGED containers
       ELSE /\ stray' = stray \ {s}
            /\ containers' = RemoveById(containers, s.name, s.id)
    /\ UNCHANGED <<nextCid, deployments, tracked, now, handlers, runners,
                   running, task, stopper, failedEver, OtherVars>>

\* ---------------------------------------------------- specifications
Quiescent ==
    /\ \A h \in Handlers : handlers[h].pc = "idle"
    /\ \A r \in Runners : runners[r].pc = "idle"

HandlerStep(h) ==
    \/ \E fault \in BOOLEAN : DeployGet(h, fault)
    \/ \E fault \in BOOLEAN : DeployRemove(h, fault)
    \/ \E fault \in BOOLEAN : DeployRun(h, fault)
    \/ DeployStore(h)
    \/ \E fault \in BOOLEAN : TeardownGet(h, fault)
    \/ \E fault \in BOOLEAN : TeardownRemove(h, fault)
    \/ TeardownStore(h)
    \/ HandlerReturn(h)

CycleStep(r) ==
    \/ \E fault \in BOOLEAN : ExpireGet(r, fault)
    \/ \E fault \in BOOLEAN : ExpireRemove(r, fault)
    \/ \E fault \in BOOLEAN : OrphanList(r, fault)
    \/ OrphanSnap(r)
    \/ \E fault \in BOOLEAN : OrphanGet(r, fault)
    \/ \E fault \in BOOLEAN : OrphanRemove(r, fault)

\* One operation at a time: a request, a direct reaper cycle or a step of
\* the environment starts only when nothing is in flight.
SeqStart ==
    \/ \E k \in RequestIds, img \in Images : DeployStart("h1", k, img)
    \/ \E k \in RequestIds : TeardownStart("h1", k)
    \/ RunCleanupStart("direct", "idle")
    \/ \E k \in Ids, ttl \in TTLInputs : RegisterDeployment(k, ttl, TRUE)
    \/ \E k \in Ids : UnregisterDeployment(k)
    \/ \E name \in ExtNames : ExternalCreate(name)
    \/ Tick

NextSeq ==
    \/ Quiescent /\ SeqStart
    \/ HandlerStep("h1")
    \/ CycleStep("direct")
    \/ RunCleanupReturn("direct")

SpecSeq == Init /\ [][NextSeq]_vars

\* the webhook endpoints alone, called with any header, under either setting
NextAuth ==
    \/ \E h \in Handlers, k \in RequestIds, img \in Images, header \in Headers :
          DeployRequest(h, k, img, header)
    \/ \E h \in Handlers, k \in RequestIds, header \in Headers :
          TeardownRequest(h, k, header)
    \/ \E h \in Handlers : HandlerStep(h)

SpecAuth == InitAuth /\ [][NextAuth]_vars

\* Requests for one deployment id, direct reaper cycles and the
\* environment, freely interleaved.
Next ==
    \/ \E k \in RequestIds : DeployStart("h1", k, "img1")
    \/ \E k \in RequestIds : TeardownStart("h1", k)
    \/ HandlerStep("h1")
    \/ RunCleanupStart("direct", "idle")
    \/ CycleStep("direct")
    \/ RunCleanupReturn("direct")
    \/ \E k \in RequestIds : RegisterDeployment(k, 1, TRUE)
    \/ \E k \in RequestIds : RegisterDeployment(k, 0, FALSE)
    \/ ExternalCreate(ContainerName(GhostId))
    \/ Tick

Spec == Init /\ [][Next]_vars

\* The background loop: start and stop calls and the loop tasks, with an
\* environment that registers a deployment, starts its container and
\* lets time pass.
NextLoop ==
    \/ StartBackgroundCleanup
    \/ StopBackgroundCleanup
    \/ StopReturn
    \/ \E t \in LoopTasks : LoopWake(t) \/ LoopBack(t) \/ CycleStep(t)
    \/ \E s \in stray : StrayStep(s)
    \/ \E k \in RequestIds : RegisterDeployment(k, 1, TRUE)
    \/ \E k \in RequestIds : ExternalCreate(ContainerName(k))
    \/ Tick

SpecLoop == Init /\ [][NextLoop]_vars

\* Deploy requests of two handlers at once for the same deployment id, with
\* an engine that does not fail.
NextRace ==
    \/ \E h \in Handlers, k \in RequestIds, img \in Images : DeployStart(h, k, img)
    \/ \E h \in Handlers : DeployGet(h, FALSE)
    \/ \E h \in Handlers : DeployRemove(h, FALSE)
    \/ \E h \in Handlers : DeployRun(h, FALSE)
    \/ \E h \in Handlers : DeployStore(h)
    \/ \E h \in Handlers : HandlerReturn(h)

SpecRace == Init /\ [][NextRace]_vars

\* The background loop with start and stop calls made one after the other:
\* no start call runs while a stop call awaits the cancelled task.
NextStop ==
    \/ stopper = "idle" /\ StartBackgroundCleanup
    \/ StopBackgroundCleanup
    \/ StopReturn
    \/ \E t \in LoopTasks : LoopWake(t) \/ LoopBack(t) \/ CycleStep(t)
    \/ \E s \in stray : StrayStep(s)
    \/ \E k \in RequestIds : RegisterDeployment(k, 1, TRUE)
    \/ \E k \in RequestIds : ExternalCreate(ContainerName(k))
    \/ Tick

SpecStop == Init /\ [][NextStop]_vars

\* The background loop once started, and a direct caller of run_cleanup.
NextDirect ==
    \/ StartBackgroundCleanup
    \/ LoopWake("t1") \/ LoopBack("t1") \/ CycleStep("t1")
    \/ RunCleanupStart("direct", "idle")
    \/ CycleStep("direct")
    \/ RunCleanupReturn("direct")
    \/ \E k \in RequestIds : RegisterDeployment(k, 1, TRUE)
    \/ \E k \in RequestIds : ExternalCreate(ContainerName(k))
    \/ Tick

SpecDirect == Init /\ [][NextDirect]_vars

\* Direct reaper cycles in which every driver step may fail, the
\* construction of the driver included.
NextReaper ==
    \/ RunCleanupStart("direct", "idle")
    \/ ExpiredDriverRaises("direct", "idle")
    \/ OrphanDriverRaises("direct")
    \/ CycleStep("direct")
    \/ RunCleanupReturn("direct")
    \/ RunCleanupRaised("direct")
    \/ \E k \in RequestIds, ttl \in TTLInputs : RegisterDeployment(k, ttl, TRUE)
    \/ \E k \in Ids : ExternalCreate(ContainerName(k))
    \/ Tick

SpecReaper == Init /\ [][NextReaper]_vars

\* ------------------------------------------- progress event bus
\* ConnectionManager.disconnect: list.remove of the socket if present, and
\* the key is deleted when its list is empty
Disconnect(conns, d, ws) ==
    LET lst == IF d \in DOMAIN conns THEN conns[d] ELSE <<>>
        rest == SelectSeq(lst, LAMBDA x : x # ws)
    IN  IF rest = <<>> THEN Remove(conns, d) ELSE Put(conns, d, rest)

\* deployment_progress: manager.connect accepts the socket and appends it
Connect(s, d) ==
    /\ sinks[s].state = "new"
    /\ sinks' = [sinks EXCEPT ![s] = [state |-> "open", dep |-> d]]
    /\ connections' = Put(connections, d,
            (IF d \in DOMAIN connections THEN connections[d] ELSE <<>>) \o <<s>>)
    /\ UNCHANGED <<inbox, casts, CoreVars, webhook_secret, HookVars, StoreVars, LogVars, SchemaVars>>

\* deployment_progress: manager.connect for a client that closes its end
\* before the handler sends the connected message
ConnectUngreeted(s, d) ==
    /\ sinks[s].state = "new"
    /\ sinks' = [sinks EXCEPT ![s] = [state |-> "ungreeted", dep |-> d]]
    /\ connections' = Put(connections, d,
            (IF d \in DOMAIN connections THEN connections[d] ELSE <<>>) \o <<s>>)
    /\ UNCHANGED <<inbox, casts, CoreVars, webhook_secret, HookVars, StoreVars, LogVars, SchemaVars>>

\* deployment_progress: the send_json of the connected message raises; it
\* stands before the try block, so the handler ends without its finally
ConnectedSendRaises(s) ==
    /\ sinks[s].state = "ungreeted"
    /\ sinks' = [sinks EXCEPT ![s].state = "gone"]
    /\ UNCHANGED <<connections, inbox, casts, CoreVars, webhook_secret, HookVars, StoreVars, LogVars, SchemaVars>>

\* the client closes its socket; every later send on it raises
ClientClose(s) ==
    /\ sinks[s].state = "open"
    /\ sinks' = [sinks EXCEPT ![s].state = "closed"]
    /\ UNCHANGED <<connections, inbox, casts, CoreVars, webhook_secret, HookVars, StoreVars, LogVars, SchemaVars>>

\* deployment_progress: receive raises WebSocketDisconnect, the finally
\* clause calls manager.disconnect
EndpointDisconnect(s) ==
    /\ sinks[s].state = "closed"
    /\ sinks' = [sinks EXCEPT ![s].state = "gone"]
    /\ connections' = Disconnect(connections, sinks[s].dep, s)
    /\ UNCHANGED <<inbox, casts, CoreVars, webhook_secret, HookVars, StoreVars, LogVars, SchemaVars>>

\* mutant: the publisher does not await its broadcast before the next one
PublisherNeverWaits(p) == TRUE

\* emit_started ... emit_failed: each awaits manager.broadcast, so a
\* publisher emits its next event when its earlier broadcasts have returned
PublisherReady(p) ==
    \A b \in 1..Len(casts) : casts[b].pub = p => casts[b].pc = "done"

\* broadcast: the message is built and the subscribers are copied under the lock
BroadcastStart(p, d) ==
    LET subscribers == IF d \in DOMAIN connections THEN connections[d] ELSE <<>>
    IN  /\ Len(casts) < MaxCasts
        /\ PublisherReady(p)
        /\ casts' = Append(casts,
                [pub |-> p, dep |-> d,
                 pc |-> IF subscribers = <<>> THEN "done" ELSE "send",
                 subscribers |-> subscribers, idx |-> 1, disconnected |-> <<>>,
                 received |-> {}, raised |-> {}, late |-> {}])
        /\ UNCHANGED <<connections, sinks, inbox, CoreVars, webhook_secret, HookVars, StoreVars, LogVars, SchemaVars>>

\* mutant: the loop over the subscribers ends at the first send that raises
AfterSendStopsOnRaise(c, outcome) ==
    LET ws == c.subscribers[c.idx]
    IN  IF outcome = "raise"
        THEN [c EXCEPT !.raised = @ \cup {ws}, !.disconnected = Append(@, ws),
                       !.pc = "cleanup", !.idx = 1]
        ELSE IF c.idx < Len(c.subscribers)
        THEN [c EXCEPT !.received = @ \cup {ws}, !.idx = c.idx + 1]
        ELSE [c EXCEPT !.received = @ \cup {ws},
                       !.pc = IF c.disconnected = <<>> THEN "done" ELSE "cleanup", !.idx = 1]

\* broadcast: the cast after the send to subscribers[idx] has returned or
\* raised ("late": it returned, after longer than a send-deadline would
\* allow; the code sets no deadline and waits)
AfterSend(c, outcome) ==
    LET ws == c.subscribers[c.idx]
        sent == [c EXCEPT !.received = IF outcome = "raise" THEN @ ELSE @ \cup {ws},
                          !.late = IF outcome = "late" THEN @ \cup {ws} ELSE @,
                          !.raised = IF outcome = "raise" THEN @ \cup {ws} ELSE @,
                          !.disconnected = IF outcome = "raise" THEN Append(@, ws) ELSE @]
    IN  IF c.idx < Len(c.subscribers) THEN [sent EXCEPT !.idx = c.idx + 1]
        ELSE IF sent.disconnected = <<>> THEN [sent EXCEPT !.pc = "done"]
        ELSE [sent EXCEPT !.pc = "cleanup", !.idx = 1]

\* broadcast: await websocket.send_text(message_json) for the next subscriber
SendText(b, outcome) ==
    LET c == casts[b]
        ws == c.subscribers[c.idx]
    IN  /\ c.pc = "send"
        /\ outcome # "raise" => sinks[ws].state = "open"
        /\ casts' = [casts EXCEPT ![b] = AfterSend(c, outcome)]
        /\ inbox' = IF outcome = "raise" THEN inbox
                     ELSE [inbox EXCEPT ![ws] = Append(@, b)]
        /\ UNCHANGED <<connections, sinks, CoreVars, webhook_secret, HookVars, StoreVars, LogVars, SchemaVars>>

\* broadcast: await self.disconnect(deployment_id, ws) for the next failed socket
CastCleanup(b) ==
    LET c == casts[b]
    IN  /\ c.pc = "cleanup"
        /\ connections' = Disconnect(connections, c.dep, c.disconnected[c.idx])
        /\ casts' = [casts EXCEPT ![b] =
                IF c.idx < Len(c.disconnected) THEN [c EXCEPT !.idx = c.idx + 1]
                ELSE [c EXCEPT !.pc = "done"]]
        /\ UNCHANGED <<sinks, inbox, CoreVars, webhook_secret, HookVars, StoreVars, LogVars, SchemaVars>>

\* WebSocket clients of two deployments and two publishers
NextBus ==
    \/ \E s \in Sinks, d \in Ids : Connect(s, d)
    \/ \E s \in Sinks : ClientClose(s)
    \/ \E s \in Sinks : EndpointDisconnect(s)
    \/ \E p \in Publishers, d \in RequestIds : BroadcastStart(p, d)
    \/ \E b \in 1..Len(casts), outcome \in SendOutcomes : SendText(b, outcome)
    \/ \E b \in 1..Len(casts) : CastCleanup(b)

SpecBus == Init /\ [][NextBus]_vars

\* The subscribers and publishers of one deployment; a send returns or raises.
NextOrder ==
    \/ \E s \in Sinks, d \in RequestIds : Connect(s, d)
    \/ \E s \in Sinks : ClientClose(s)
    \/ \E s \in Sinks : EndpointDisconnect(s)
    \/ \E p \in Publishers, d \in RequestIds : BroadcastStart(p, d)
    \/ \E b \in 1..Len(casts), outcome \in {"ok", "raise"} : SendText(b, outcome)
    \/ \E b \in 1..Len(casts) : CastCleanup(b)

SpecOrder == Init /\ [][NextOrder]_vars

\* The connection handlers of one deployment on every exit path, with
\* publishers broadcasting to it.
NextSinks ==
    \/ \E s \in Sinks, d \in RequestIds : Connect(s, d)
    \/ \E s \in Sinks, d \in RequestIds : ConnectUngreeted(s, d)
    \/ \E s \in Sinks : ConnectedSendRaises(s)
    \/ \E s \in Sinks : ClientClose(s)
    \/ \E s \in Sinks : EndpointDisconnect(s)
    \/ \E p \in Publishers, d \in RequestIds : BroadcastStart(p, d)
    \/ \E b \in 1..Len(casts), outcome \in {"ok", "raise"} : SendText(b, outcome)
    \/ \E b \in 1..Len(casts) : CastCleanup(b)

SpecSinks == Init /\ [][NextSinks]_vars

\* ------------------------------------------------ lifecycle hooks
\* register_hook: a WebhookConfig with the default retry_count is appended
RegisterHook(d, url, events) ==
    LET old == IF d \in DOMAIN hooks THEN hooks[d] ELSE <<>>
    IN  /\ \A i \in 1..Len(old) : old[i].url # url
        /\ hooks' = Put(hooks, d,
                Append(old, [url |-> url, events |-> events,
                             retry_count |-> retry_count_default]))
        /\ UNCHANGED <<history, emits, CoreVars, webhook_secret, BusVars, StoreVars, LogVars, SchemaVars>>

\* unregister_hooks
UnregisterHooks(d) ==
    /\ d \in DOMAIN hooks
    /\ hooks' = Remove(hooks, d)
    /\ UNCHANGED <<history, emits, CoreVars, webhook_secret, BusVars, StoreVars, LogVars, SchemaVars>>

\* response.is_success
IsSuccess(code) == code >= 200 /\ code <= 299

\* HookInvocation (status_code 0 and error <<"None", 0>> stand for None)
Invocation(d, event, url, success, status_code, error) ==
    [deployment_id |-> d, event |-> event, webhook_url |-> url,
     success |-> success, status_code |-> status_code, error |-> error]

\* _invoke_hook before its loop
NewInvoke(hook) ==
    [url |-> hook.url, retry_count |-> hook.retry_count,
     pc |-> IF hook.retry_count > 0 THEN "post" ELSE "fail",
     attempt |-> 0, last_error |-> <<"None", 0>>, status_code |-> 0,
     posts |-> 0, fails |-> 0, sleeps |-> 0,
     lastOutcome |-> [kind |-> "none", code |-> 0], out |-> <<>>]

\* emit: the hooks of the deployment that list the event
Relevant(d, event) ==
    SelectSeq(IF d \in DOMAIN hooks THEN hooks[d] ELSE <<>>,
              LAMBDA h : event \in h.events)

\* records the history holds or is about to receive
RecordsHeld ==
    LET dep == CHOOSE d \in RequestIds : TRUE
    IN  IF dep \in DOMAIN history THEN Len(history[dep]) ELSE 0

\* emit up to asyncio.gather: no relevant hook returns [] at once
EmitStart(e, d, event) ==
    LET relevant == Relevant(d, event)
    IN  /\ emits[e].pc = "idle"
        /\ RecordsHeld + Len(relevant) <= MaxRecords
        /\ emits' = [emits EXCEPT ![e] =
                [pc |-> IF relevant = <<>> THEN "done" ELSE "gather",
                 dep |-> d, event |-> event,
                 invs |-> [i \in 1..Len(relevant) |-> NewInvoke(relevant[i])],
                 result |-> <<>>]]
        /\ UNCHANGED <<hooks, history, CoreVars, webhook_secret, BusVars, StoreVars, LogVars, SchemaVars>>

\* mutant: only the httpx errors are caught
CatchesHttpxOnly(outcome) == outcome.kind # "exception"

\* _invoke_hook: the except clauses catch TimeoutException, RequestError
\* and every other Exception
Catches(outcome) == TRUE

\* mutant: the delay and a further attempt follow the last attempt too
MoreAttemptsOffByOne(inv) == inv.attempt < inv.retry_count

\* _invoke_hook: attempt < hook.retry_count - 1
MoreAttempts(inv) == inv.attempt < inv.retry_count - 1

\* _invoke_hook after a failed attempt: the delay, or the end of the loop
AfterFailure(inv) ==
    [inv EXCEPT !.fails = @ + 1,
                !.pc = IF MoreAttempts(inv) THEN "sleep" ELSE "fail"]

\* mutant: a 2xx answer returns only from the last attempt of the loop
SuccessGoesOn(inv, d, event, code) ==
    IF MoreAttempts(inv) THEN [inv EXCEPT !.status_code = code, !.pc = "sleep"]
    ELSE [inv EXCEPT !.status_code = code, !.pc = "done",
                     !.out = <<Invocation(d, event, inv.url, TRUE, code, <<"None", 0>>)>>]

\* _invoke_hook: a 2xx answer returns the record at once
SuccessReturns(inv, d, event, code) ==
    [inv EXCEPT !.status_code = code, !.pc = "done",
                !.out = <<Invocation(d, event, inv.url, TRUE, code, <<"None", 0>>)>>]

\* _invoke_hook: one client.post and what follows it in the loop body
AfterPost(inv, outcome, d, event) ==
    LET posted == [inv EXCEPT !.posts = @ + 1, !.lastOutcome = outcome]
    IN  IF outcome.kind = "status"
        THEN IF IsSuccess(outcome.code)
             THEN SuccessReturns(posted, d, event, outcome.code)
             ELSE AfterFailure([posted EXCEPT !.status_code = outcome.code,
                                              !.last_error = <<"HTTP", outcome.code>>])
        ELSE IF ~Catches(outcome) THEN [posted EXCEPT !.pc = "raised"]
        ELSE IF outcome.kind = "timeout"
             THEN AfterFailure([posted EXCEPT !.last_error = <<"Timeout", 0>>])
        ELSE AfterFailure([posted EXCEPT !.last_error = <<outcome.kind, 0>>])

\* _invoke_hook: await client.post(...)
Post(e, i, outcome) ==
    LET em == emits[e]
    IN  /\ em.pc = "gather"
        /\ i \in 1..Len(em.invs)
        /\ em.invs[i].pc = "post"
        /\ emits' = [emits EXCEPT ![e].invs[i] = AfterPost(em.invs[i], outcome, em.dep, em.event)]
        /\ UNCHANGED <<hooks, history, CoreVars, webhook_secret, BusVars, StoreVars, LogVars, SchemaVars>>

\* _invoke_hook: await asyncio.sleep(hook.retry_delay_seconds), next attempt
RetryDelay(e, i) ==
    LET em == emits[e]
    IN  /\ em.pc = "gather"
        /\ i \in 1..Len(em.invs)
        /\ em.invs[i].pc = "sleep"
        /\ emits' = [emits EXCEPT ![e].invs[i] =
                [em.invs[i] EXCEPT
                    !.pc = IF em.invs[i].attempt + 1 < em.invs[i].retry_count
                           THEN "post" ELSE "fail",
                    !.attempt = @ + 1, !.sleeps = @ + 1]]
        /\ UNCHANGED <<hooks, history, CoreVars, webhook_secret, BusVars, StoreVars, LogVars, SchemaVars>>

\* _invoke_hook after the loop: the record of the failed delivery
AllRetriesFailed(e, i) ==
    LET em == emits[e]
    IN  /\ em.pc = "gather"
        /\ i \in 1..Len(em.invs)
        /\ em.invs[i].pc = "fail"
        /\ emits' = [emits EXCEPT ![e].invs[i] =
                [em.invs[i] EXCEPT
                    !.pc = "done",
                    !.out = <<Invocation(em.dep, em.event, em.invs[i].url, FALSE,
                                         em.invs[i].status_code, em.invs[i].last_error)>>]]
        /\ UNCHANGED <<hooks, history, CoreVars, webhook_secret, BusVars, StoreVars, LogVars, SchemaVars>>

\* self._history[deployment_id][-self._history_limit:]
LastN(seq, n) == IF Len(seq) > n THEN SubSeq(seq, Len(seq) - n + 1, Len(seq)) ELSE seq

\* emit after asyncio.gather: an exception of a task is raised to the
\* caller; else the records are appended to the history, which is trimmed
EmitGathered(e) ==
    LET em == emits[e]
        invocations == [i \in 1..Len(em.invs) |-> em.invs[i].out[1]]
        old == IF em.dep \in DOMAIN history THEN history[em.dep] ELSE <<>>
    IN  /\ em.pc = "gather"
        /\ IF \E i \in 1..Len(em.invs) : em.invs[i].pc = "raised"
           THEN /\ emits' = [emits EXCEPT ![e].pc = "raised"]
                /\ UNCHANGED history
           ELSE /\ \A i \in 1..Len(em.invs) : em.invs[i].pc = "done"
                /\ history' = Put(history, em.dep, LastN(old \o invocations, history_limit))
                /\ emits' = [emits EXCEPT ![e].pc = "done", ![e].result = invocations]
        /\ UNCHANGED <<hooks, CoreVars, webhook_secret, BusVars, StoreVars, LogVars, SchemaVars>>

\* emit has returned (or raised) to its caller
EmitReturn(e) ==
    /\ emits[e].pc \in {"done", "raised"}
    /\ emits' = [emits EXCEPT ![e].pc = "idle", ![e].invs = <<>>, ![e].result = <<>>]
    /\ UNCHANGED <<hooks, history, CoreVars, webhook_secret, BusVars, StoreVars, LogVars, SchemaVars>>

\* get_history: history[-limit:] of the deployment's list, [] without one
\* (limit >= 0; a limit of 0 slices the whole list)
GetHistory(hist, d, limit) ==
    LET all == IF d \in DOMAIN hist THEN hist[d] ELSE <<>>
    IN  IF limit = 0 THEN all ELSE LastN(all, limit)

\* get_hooks: the hooks registered for the deployment, [] without any
GetHooks(registered, d) == IF d \in DOMAIN registered THEN registered[d] ELSE <<>>

\* Hook registrations of one deployment, made between the emits for it;
\* the hooks of one emit run concurrently.
NoEmit == \A e \in Emitters : emits[e].pc = "idle"

NextHooks ==
    \/ \E d \in RequestIds, hook \in HookInputs :
            NoEmit /\ RegisterHook(d, hook.url, hook.events)
    \/ \E d \in RequestIds : NoEmit /\ UnregisterHooks(d)
    \/ \E e \in Emitters, d \in RequestIds, event \in LifecycleEvents : EmitStart(e, d, event)
    \/ \E e \in Emitters, i \in 1..Cardinality(Urls), outcome \in PostOutcomes : Post(e, i, outcome)
    \/ \E e \in Emitters, i \in 1..Cardinality(Urls) : RetryDelay(e, i)
    \/ \E e \in Emitters, i \in 1..Cardinality(Urls) : AllRetriesFailed(e, i)
    \/ \E e \in Emitters : EmitGathered(e)
    \/ \E e \in Emitters : EmitReturn(e)

SpecHooks == Init /\ [][NextHooks]_vars

\* ------------------------------------------------- artifact store
StoreRest == <<CoreVars, webhook_secret, BusVars, HookVars, LogVars, SchemaVars>>

\* hashlib.sha256(content).hexdigest(): no two contents of the model collide
Sha256(content) == <<"sha256">> \o content

\* datetime.isoformat and datetime.fromisoformat
IsoFormat(t) == <<"iso", t>>
FromIsoFormat(text) == text[2]

\* deployment_dir / f"{artifact_id}_{filename}"
FilePath(d, artifact_id, filename) == <<d, artifact_id, filename>>

NoResult == [kind |-> "none", items |-> <<>>, content |-> <<>>, ok |-> FALSE]

IdleStoreOp ==
    [pc |-> "idle", op |-> "none", id |-> 0, dep |-> <<"a">>, filename |-> "f",
     content |-> <<>>, path |-> <<>>, sha256 |-> <<>>, row |-> <<>>,
     hadRow |-> FALSE, fault |-> FALSE, resp |-> "none", result |-> NoResult]

\* an exception leaves the storage call: the endpoint answers 500
StoreRaise(op, injected) == [op EXCEPT !.pc = "done", !.resp = "500", !.fault = injected]

\* ArtifactMetadata as save_artifact builds it
Metadata(op, t) ==
    [id |-> op.id, deployment_id |-> op.dep, filename |-> op.filename,
     content_type |-> "application/octet-stream", size |-> Len(op.content),
     sha256 |-> op.sha256, created_at |-> t, path |-> op.path]

\* the row that INSERT stores, and the ArtifactMetadata built from a row
RowOf(m) == [m EXCEPT !.created_at = IsoFormat(m.created_at)]
MetadataOf(row) == [row EXCEPT !.created_at = FromIsoFormat(row.created_at)]

\* upload_artifact and save_artifact up to the write: an empty upload is
\* refused with 400; else a fresh uuid4, the hash and the path
SaveStart(c, d, filename, content) ==
    /\ storeOps[c].pc = "idle"
    /\ nextArtifact <= MaxArtifacts
    /\ IF Len(content) = 0
       THEN /\ storeOps' = [storeOps EXCEPT ![c] =
                    [IdleStoreOp EXCEPT !.pc = "done", !.op = "save", !.dep = d,
                                        !.resp = "400"]]
            /\ UNCHANGED nextArtifact
       ELSE /\ storeOps' = [storeOps EXCEPT ![c] =
                    [IdleStoreOp EXCEPT !.pc = "s_write", !.op = "save", !.id = nextArtifact,
                                        !.dep = d, !.filename = filename, !.content = content,
                                        !.sha256 = Sha256(content),
                                        !.path = FilePath(d, nextArtifact, filename)]]
            /\ nextArtifact' = nextArtifact + 1
    /\ UNCHANGED <<files, rows, saved, touched, StoreRest>>

\* mutant: a write that stops short raises nothing
WriteRaisesOnOpenOnly(outcome) == outcome = "open_fails"

\* _write: open and f.write raise on any failure
WriteRaises(outcome) == outcome # "ok"

\* mutant: the last byte is not written
WrittenTruncated(content) == SubSeq(content, 1, Len(content) - 1)

\* _write: f.write(content)
WrittenBytes(content) == content

\* save_artifact: await asyncio.to_thread(_write); open may fail, and a
\* write that fails leaves the bytes written so far
SaveWrite(c, outcome) ==
    LET op == storeOps[c]
    IN  /\ op.pc = "s_write"
        /\ files' = IF outcome = "open_fails" THEN files
                     ELSE IF outcome = "partial"
                     THEN Put(files, op.path, SubSeq(op.content, 1, Len(op.content) - 1))
                     ELSE Put(files, op.path, WrittenBytes(op.content))
        /\ storeOps' = [storeOps EXCEPT ![c] =
                IF WriteRaises(outcome) THEN StoreRaise(op, TRUE)
                ELSE [op EXCEPT !.pc = "s_insert"]]
        /\ UNCHANGED <<rows, nextArtifact, saved, touched, StoreRest>>

\* save_artifact: the metadata, INSERT and commit, return metadata
SaveInsert(c, fault) ==
    LET op == storeOps[c]
        metadata == Metadata(op, now)
    IN  /\ op.pc = "s_insert"
        /\ IF fault
           THEN /\ storeOps' = [storeOps EXCEPT ![c] = StoreRaise(op, TRUE)]
                /\ UNCHANGED <<rows, saved>>
           ELSE /\ rows' = Put(rows, op.id, RowOf(metadata))
                /\ saved' = Put(saved, op.id, [metadata |-> metadata, content |-> op.content])
                /\ storeOps' = [storeOps EXCEPT ![c] =
                        [op EXCEPT !.pc = "done", !.resp = "200",
                                   !.result = [NoResult EXCEPT !.kind = "metadata",
                                                               !.items = <<metadata>>]]]
        /\ UNCHANGED <<files, nextArtifact, touched, StoreRest>>

\* download_artifact calls get_artifact
GetStart(c, artifact_id) ==
    /\ storeOps[c].pc = "idle"
    /\ storeOps' = [storeOps EXCEPT ![c] =
            [IdleStoreOp EXCEPT !.pc = "g_select", !.op = "get", !.id = artifact_id]]
    /\ UNCHANGED <<files, rows, nextArtifact, saved, touched, StoreRest>>

\* get_artifact: SELECT * FROM artifacts WHERE id = ?
GetSelect(c, fault) ==
    LET op == storeOps[c]
    IN  /\ op.pc = "g_select"
        /\ storeOps' = [storeOps EXCEPT ![c] =
                IF fault THEN StoreRaise(op, TRUE)
                ELSE IF op.id \in DOMAIN rows
                THEN [op EXCEPT !.pc = "g_exists", !.row = <<rows[op.id]>>, !.hadRow = TRUE]
                ELSE [op EXCEPT !.pc = "done", !.resp = "404"]]
        /\ UNCHANGED <<files, rows, nextArtifact, saved, touched, StoreRest>>

\* get_artifact: no row was handled above; a missing file returns None
GetExists(c) ==
    LET op == storeOps[c]
        metadata == MetadataOf(op.row[1])
    IN  /\ op.pc = "g_exists"
        /\ storeOps' = [storeOps EXCEPT ![c] =
                IF metadata.path \in DOMAIN files
                THEN [op EXCEPT !.pc = "g_read", !.path = metadata.path]
                ELSE [op EXCEPT !.pc = "done", !.resp = "404"]]
        /\ UNCHANGED <<files, rows, nextArtifact, saved, touched, StoreRest>>

\* get_artifact after the read: a hash that differs from the row's
\* returns None, which download_artifact answers with 404
Verified(op, metadata, content) ==
    IF Sha256(content) # metadata.sha256
    THEN [op EXCEPT !.pc = "done", !.resp = "404"]
    ELSE [op EXCEPT !.pc = "done", !.resp = "200",
                    !.result = [NoResult EXCEPT !.kind = "artifact", !.items = <<metadata>>,
                                                !.content = content]]

\* get_artifact: await asyncio.to_thread(_read), then the integrity check
GetRead(c, fault) ==
    LET op == storeOps[c]
    IN  /\ op.pc = "g_read"
        /\ storeOps' = [storeOps EXCEPT ![c] =
                IF fault \/ op.path \notin DOMAIN files THEN StoreRaise(op, fault)
                ELSE Verified(op, MetadataOf(op.row[1]), files[op.path])]
        /\ UNCHANGED <<files, rows, nextArtifact, saved, touched, StoreRest>>

\* list_artifacts calls the service with the endpoint's defaults
ListStart(c, d) ==
    /\ storeOps[c].pc = "idle"
    /\ storeOps' = [storeOps EXCEPT ![c] =
            [IdleStoreOp EXCEPT !.pc = "l_select", !.op = "list", !.dep = d]]
    /\ UNCHANGED <<files, rows, nextArtifact, saved, touched, StoreRest>>

\* ORDER BY created_at DESC: every order of the ids that never puts an
\* older row before a newer one (rows of one instant come in any order)
Listings(rs, ids) ==
    {l \in [1..Cardinality(ids) -> ids] :
        /\ \A i, j \in DOMAIN l : i # j => l[i] # l[j]
        /\ \A i, j \in DOMAIN l :
              i < j => FromIsoFormat(rs[l[i]].created_at) >= FromIsoFormat(rs[l[j]].created_at)}

\* LIMIT ? OFFSET ?
Page(l, limit, offset) ==
    IF offset >= Len(l) THEN <<>>
    ELSE SubSeq(l, offset + 1, IF offset + limit < Len(l) THEN offset + limit ELSE Len(l))

\* list_artifacts: the SELECT with deployment_id, and the metadata list
ListSelect(c, fault) ==
    LET op == storeOps[c]
        ids == {i \in DOMAIN rows : rows[i].deployment_id = op.dep}
    IN  /\ op.pc = "l_select"
        /\ IF fault
           THEN storeOps' = [storeOps EXCEPT ![c] = StoreRaise(op, TRUE)]
           ELSE \E l \in Listings(rows, ids) :
                  LET page == Page(l, ListLimitDefault, 0)
                  IN  storeOps' = [storeOps EXCEPT ![c] =
                          [op EXCEPT !.pc = "done", !.resp = "200",
                                     !.result = [NoResult EXCEPT !.kind = "list",
                                         !.items = [i \in DOMAIN page |-> MetadataOf(rows[page[i]])]]]]
        /\ UNCHANGED <<files, rows, nextArtifact, saved, touched, StoreRest>>

\* the delete endpoint calls delete_artifact
DeleteStart(c, artifact_id) ==
    /\ storeOps[c].pc = "idle"
    /\ storeOps' = [storeOps EXCEPT ![c] =
            [IdleStoreOp EXCEPT !.pc = "d_select", !.op = "delete", !.id = artifact_id]]
    /\ UNCHANGED <<files, rows, nextArtifact, saved, touched, StoreRest>>

\* delete_artifact: SELECT path; no row returns False, answered with 404
DeleteSelect(c, fault) ==
    LET op == storeOps[c]
    IN  /\ op.pc = "d_select"
        /\ storeOps' = [storeOps EXCEPT ![c] =
                IF fault THEN StoreRaise(op, TRUE)
                ELSE IF op.id \in DOMAIN rows
                THEN [op EXCEPT !.pc = "d_exists", !.path = rows[op.id].path, !.hadRow = TRUE]
                ELSE [op EXCEPT !.pc = "done", !.resp = "404",
                                !.result = [NoResult EXCEPT !.kind = "bool"]]]
        /\ touched' = IF ~fault /\ op.id \in DOMAIN rows THEN touched \cup {op.id} ELSE touched
        /\ UNCHANGED <<files, rows, nextArtifact, saved, StoreRest>>

\* delete_artifact: if file_path.exists()
DeleteExists(c) ==
    LET op == storeOps[c]
    IN  /\ op.pc = "d_exists"
        /\ storeOps' = [storeOps EXCEPT ![c] =
                [op EXCEPT !.pc = IF op.path \in DOMAIN files THEN "d_remove" ELSE "d_row"]]
        /\ UNCHANGED <<files, rows, nextArtifact, saved, touched, StoreRest>>

\* delete_artifact: await asyncio.to_thread(_delete); os.remove raises
\* when the file has gone since the test
DeleteRemove(c, fault) ==
    LET op == storeOps[c]
    IN  /\ op.pc = "d_remove"
        /\ IF fault \/ op.path \notin DOMAIN files
           THEN /\ storeOps' = [storeOps EXCEPT ![c] = StoreRaise(op, fault)]
                /\ UNCHANGED files
           ELSE /\ files' = Remove(files, op.path)
                /\ storeOps' = [storeOps EXCEPT ![c] = [op EXCEPT !.pc = "d_row"]]
        /\ UNCHANGED <<rows, nextArtifact, saved, touched, StoreRest>>

\* mutant: the row stays
RowsKept(rs, artifact_id) == rs

\* DELETE FROM artifacts WHERE id = ?
RowsAfterDelete(rs, artifact_id) == Remove(rs, artifact_id)

\* delete_artifact: the DELETE and commit, return True
DeleteRow(c, fault) ==
    LET op == storeOps[c]
    IN  /\ op.pc = "d_row"
        /\ IF fault
           THEN /\ storeOps' = [storeOps EXCEPT ![c] = StoreRaise(op, TRUE)]
                /\ UNCHANGED rows
           ELSE /\ rows' = RowsAfterDelete(rows, op.id)
                /\ storeOps' = [storeOps EXCEPT ![c] =
                        [op EXCEPT !.pc = "done", !.resp = "200",
                                   !.result = [NoResult EXCEPT !.kind = "bool", !.ok = TRUE]]]
        /\ UNCHANGED <<files, nextArtifact, saved, touched, StoreRest>>

\* the endpoint has answered; the caller may send its next request
StoreReturn(c) ==
    /\ storeOps[c].pc = "done"
    /\ storeOps' = [storeOps EXCEPT ![c] = IdleStoreOp]
    /\ UNCHANGED <<files, rows, nextArtifact, saved, touched, StoreRest>>

\* something outside the service rewrites the file of a row
AlterFile(artifact_id, content) ==
    /\ artifact_id \in DOMAIN rows
    /\ rows[artifact_id].path \in DOMAIN files
    /\ Sha256(files[rows[artifact_id].path]) = rows[artifact_id].sha256
    /\ Sha256(content) # rows[artifact_id].sha256
    /\ files' = Put(files, rows[artifact_id].path, content)
    /\ touched' = touched \cup {artifact_id}
    /\ UNCHANGED <<rows, nextArtifact, storeOps, saved, StoreRest>>

\* something outside the service removes the file of a row
UnlinkFile(artifact_id) ==
    /\ artifact_id \in DOMAIN rows
    /\ rows[artifact_id].path \in DOMAIN files
    /\ files' = Remove(files, rows[artifact_id].path)
    /\ touched' = touched \cup {artifact_id}
    /\ UNCHANGED <<rows, nextArtifact, storeOps, saved, StoreRest>>

ArtifactIds == 1..MaxArtifacts

\* one caller: every storage call ends before the next begins
NextStoreSeq ==
    \/ \E d \in Ids, filename \in Filenames, content \in Contents :
          SaveStart("c1", d, filename, content)
    \/ \E outcome \in WriteOutcomes : SaveWrite("c1", outcome)
    \/ \E fault \in BOOLEAN : SaveInsert("c1", fault)
    \/ \E i \in ArtifactIds : GetStart("c1", i)
    \/ \E fault \in BOOLEAN : GetSelect("c1", fault)
    \/ GetExists("c1")
    \/ \E fault \in BOOLEAN : GetRead("c1", fault)
    \/ \E d \in Ids : ListStart("c1", d)
    \/ \E fault \in BOOLEAN : ListSelect("c1", fault)
    \/ \E i \in ArtifactIds : DeleteStart("c1", i)
    \/ \E fault \in BOOLEAN : DeleteSelect("c1", fault)
    \/ DeleteExists("c1")
    \/ \E fault \in BOOLEAN : DeleteRemove("c1", fault)
    \/ \E fault \in BOOLEAN : DeleteRow("c1", fault)
    \/ StoreReturn("c1")
    \/ \E i \in ArtifactIds, content \in DiskContents : AlterFile(i, content)
    \/ \E i \in ArtifactIds : UnlinkFile(i)

SpecStoreSeq == Init /\ [][NextStoreSeq]_vars

\* the calls of several clients interleave at their awaits
NextStore ==
    \/ \E c \in StoreCallers, content \in Contents : SaveStart(c, <<"a">>, "f", content)
    \/ \E c \in StoreCallers, outcome \in WriteOutcomes : SaveWrite(c, outcome)
    \/ \E c \in StoreCallers, fault \in BOOLEAN : SaveInsert(c, fault)
    \/ \E c \in StoreCallers, i \in ArtifactIds : GetStart(c, i)
    \/ \E c \in StoreCallers : GetSelect(c, FALSE)
    \/ \E c \in StoreCallers : GetExists(c)
    \/ \E c \in StoreCallers : GetRead(c, FALSE)
    \/ \E c \in StoreCallers : ListStart(c, <<"a">>)
    \/ \E c \in StoreCallers : ListSelect(c, FALSE)
    \/ \E c \in StoreCallers, i \in ArtifactIds : DeleteStart(c, i)
    \/ \E c \in StoreCallers : DeleteSelect(c, FALSE)
    \/ \E c \in StoreCallers : DeleteExists(c)
    \/ \E c \in StoreCallers : DeleteRemove(c, FALSE)
    \/ \E c \in StoreCallers : DeleteRow(c, FALSE)
    \/ \E c \in StoreCallers : StoreReturn(c)

SpecStore == Init /\ [][NextStore]_vars

\* Requests, reaper cycles and emits for one deployment with hooks, one
\* operation at a time; every webhook answers 200.
RemovalStart ==
    \/ \E k \in RequestIds, img \in Images : DeployStart("h1", k, img)
    \/ \E k \in RequestIds : TeardownStart("h1", k)
    \/ RunCleanupStart("direct", "idle")
    \/ \E k \in RequestIds, ttl \in TTLInputs : RegisterDeployment(k, ttl, TRUE)
    \/ \E d \in RequestIds, hook \in HookInputs : RegisterHook(d, hook.url, hook.events)
    \/ \E e \in Emitters, d \in RequestIds, event \in LifecycleEvents : EmitStart(e, d, event)
    \/ Tick

NextRemoval ==
    \/ Quiescent /\ NoEmit /\ RemovalStart
    \/ HandlerStep("h1")
    \/ CycleStep("direct")
    \/ RunCleanupReturn("direct")
    \/ \E e \in Emitters, i \in 1..Cardinality(Urls) :
            Post(e, i, [kind |-> "status", code |-> 200])
    \/ \E e \in Emitters : EmitGathered(e)
    \/ \E e \in Emitters : EmitReturn(e)

SpecRemoval == Init /\ [][NextRemoval]_vars

\* Deploy and teardown requests for a deployment that has subscribers on
\* the progress bus and registered hooks, one request at a time.
EventsStart ==
    \/ \E k \in RequestIds, img \in Images : DeployStart("h1", k, img)
    \/ \E k \in RequestIds : TeardownStart("h1", k)
    \/ \E s \in Sinks, d \in RequestIds : Connect(s, d)
    \/ \E d \in RequestIds, hook \in HookInputs : RegisterHook(d, hook.url, hook.events)

NextEvents ==
    \/ Quiescent /\ EventsStart
    \/ HandlerStep("h1")

SpecEvents == Init /\ [][NextEvents]_vars

\* ------------------------------------------ artifact store: initialize
SchemaRest == <<CoreVars, webhook_secret, BusVars, HookVars, StoreVars, LogVars>>

\* mutant: the schema statements run on every call
NeedsInitializeAlways(flag) == TRUE

\* if self._initialized: return
NeedsInitialize(flag) == ~flag

\* CREATE TABLE / CREATE INDEX ... IF NOT EXISTS
CreateIfNotExists(db, object) == db \cup {object}

\* a store operation calls initialize(): the flag is tested, the directory
\* is made and the database is opened
InitializeEnter(c) ==
    /\ starters[c].pc = "idle"
    /\ starters' = [starters EXCEPT ![c] =
            [IdleStarter EXCEPT !.pc = IF NeedsInitialize(initialized) THEN "table" ELSE "ready",
                                !.entered_initialized = initialized]]
    /\ UNCHANGED <<initialized, schema, SchemaRest>>

\* initialize: one of the three db.execute statements
InitializeExecute(c) ==
    LET st == starters[c]
        object == IF st.pc = "table" THEN "artifacts"
                  ELSE IF st.pc = "index1" THEN "idx_artifacts_deployment"
                  ELSE "idx_artifacts_sha256"
        next == IF st.pc = "table" THEN "index1"
                ELSE IF st.pc = "index1" THEN "index2" ELSE "commit"
    IN  /\ st.pc \in {"table", "index1", "index2"}
        /\ schema' = CreateIfNotExists(schema, object)
        /\ starters' = [starters EXCEPT ![c] = [st EXCEPT !.pc = next, !.statements = @ + 1]]
        /\ UNCHANGED <<initialized, SchemaRest>>

\* initialize: db.commit(), the connection is closed, the flag is set
InitializeCommit(c) ==
    /\ starters[c].pc = "commit"
    /\ initialized' = TRUE
    /\ starters' = [starters EXCEPT ![c].pc = "ready"]
    /\ UNCHANGED <<schema, SchemaRest>>

\* the operation's own statement on the artifacts table after initialize()
StoreStatement(c) ==
    /\ starters[c].pc = "ready"
    /\ starters' = [starters EXCEPT ![c].pc = "done",
                                     ![c].result = IF "artifacts" \in schema THEN "ok"
                                                   ELSE "no such table"]
    /\ UNCHANGED <<initialized, schema, SchemaRest>>

\* the operation returns; the caller can start another one
StoreOperationReturn(c) ==
    /\ starters[c].pc = "done"
    /\ starters' = [starters EXCEPT ![c].pc = "idle"]
    /\ UNCHANGED <<initialized, schema, SchemaRest>>

NextSchema ==
    \/ \E c \in SchemaCallers : InitializeEnter(c)
    \/ \E c \in SchemaCallers : InitializeExecute(c)
    \/ \E c \in SchemaCallers : InitializeCommit(c)
    \/ \E c \in SchemaCallers : StoreStatement(c)
    \/ \E c \in SchemaCallers : StoreOperationReturn(c)

SpecSchema == Init /\ [][NextSchema]_vars

\* ---------------------------------------------------- log streamer
LogRest == <<CoreVars, webhook_secret, BusVars, HookVars, StoreVars, SchemaVars>>

\* bytes.decode("utf-8") raises on a byte that is no UTF-8
Decodable(line) == \A i \in 1..Len(line) : line[i] # "BAD"

\* str.strip(): the leading and trailing whitespace is dropped
RECURSIVE Strip(_)
Strip(text) ==
    IF text = <<>> THEN <<>>
    ELSE IF text[1] \in Whitespace THEN Strip(Tail(text))
    ELSE IF text[Len(text)] \in Whitespace THEN Strip(SubSeq(text, 1, Len(text) - 1))
    ELSE text

\* the SSE frames: data: <line>, event: error, event: close
DataFrame(text) == [kind |-> "data", text |-> text]
ErrorFrame(reason) == [kind |-> "error", text |-> <<reason>>]
CloseFrame == [kind |-> "close", text |-> <<"Stream ended">>]

\* the generator yields a frame and is suspended at that yield
Yield(st, frame, at) == [st EXCEPT !.frames = Append(@, frame), !.pc = at]

\* the except clause for every exception but NotFound
OnException(st) == Yield([st EXCEPT !.exception = TRUE], ErrorFrame("exception"), "y_error")

\* the finally clause
Finally(st) == Yield(st, CloseFrame, "y_close")

\* _stream_logs up to the loop: from_env, containers.get, container.logs
StreamOpen(g, outcome) ==
    LET st == [streams[g] EXCEPT !.open = outcome]
    IN  /\ streams[g].pc = "idle"
        /\ streams' = [streams EXCEPT ![g] =
                IF outcome = "ok" THEN [st EXCEPT !.pc = "next"]
                ELSE IF outcome = "not_found" THEN Yield(st, ErrorFrame("not found"), "y_error")
                ELSE OnException(st)]
        /\ UNCHANGED LogRest

\* mutant: every line read yields a data frame
YieldsDataAlways(decoded) == TRUE

\* if decoded:
YieldsData(decoded) == decoded # <<>>

\* the loop body for one line of the log: decode, strip, yield if not empty
StreamLine(g, line) ==
    LET st == [streams[g] EXCEPT !.consumed = Append(@, line)]
    IN  /\ streams[g].pc = "next"
        /\ Len(streams[g].consumed) < MaxLines
        /\ streams' = [streams EXCEPT ![g] =
                IF ~Decodable(line) THEN OnException(st)
                ELSE IF YieldsData(Strip(line)) THEN Yield(st, DataFrame(Strip(line)), "y_data")
                ELSE [st EXCEPT !.pc = "sleep"]]
        /\ UNCHANGED LogRest

\* the log ends (the container stopped): the loop is left, finally runs
StreamEnd(g) ==
    /\ streams[g].pc = "next"
    /\ streams' = [streams EXCEPT ![g] = Finally(streams[g])]
    /\ UNCHANGED LogRest

\* reading the log raises (the engine connection broke)
StreamBreak(g) ==
    /\ streams[g].pc = "next"
    /\ streams' = [streams EXCEPT ![g] = OnException(streams[g])]
    /\ UNCHANGED LogRest

\* the consumer asks for the next frame
StreamResume(g) ==
    LET st == streams[g]
    IN  /\ st.pc \in {"y_data", "y_error", "y_close"}
        /\ streams' = [streams EXCEPT ![g] =
                IF st.pc = "y_data" THEN [st EXCEPT !.pc = "sleep"]
                ELSE IF st.pc = "y_error" THEN Finally(st)
                ELSE [st EXCEPT !.pc = "ended"]]
        /\ UNCHANGED LogRest

\* the consumer closes the generator at a yield (GeneratorExit): finally
\* yields its frame to a consumer that no longer takes one
StreamClose(g) ==
    LET st == streams[g]
    IN  /\ st.pc \in {"y_data", "y_error", "y_close"}
        /\ streams' = [streams EXCEPT ![g] =
                IF st.pc = "y_close" THEN [st EXCEPT !.pc = "ended"]
                ELSE Yield(st, CloseFrame, "ended")]
        /\ UNCHANGED LogRest

\* await asyncio.sleep(0.01) returns
StreamWake(g) ==
    /\ streams[g].pc = "sleep"
    /\ streams' = [streams EXCEPT ![g].pc = "next"]
    /\ UNCHANGED LogRest

\* the consumer's task is cancelled during the sleep: CancelledError is no
\* Exception, only finally runs
StreamCancel(g) ==
    /\ streams[g].pc = "sleep"
    /\ streams' = [streams EXCEPT ![g] = Finally(streams[g])]
    /\ UNCHANGED LogRest

NextLogs ==
    \/ \E g \in Streamers, outcome \in OpenOutcomes : StreamOpen(g, outcome)
    \/ \E g \in Streamers, line \in LogLines : StreamLine(g, line)
    \/ \E g \in Streamers : StreamEnd(g)
    \/ \E g \in Streamers : StreamBreak(g)
    \/ \E g \in Streamers : StreamResume(g)
    \/ \E g \in Streamers : StreamClose(g)
    \/ \E g \in Streamers : StreamWake(g)
    \/ \E g \in Streamers : StreamCancel(g)

SpecLogs == Init /\ [][NextLogs]_vars

\* ================================================================ claims
InCycle(r) == runners[r].pc \in {"e_get", "e_remove", "o_list", "o_snap", "o_get", "o_remove"}

Range(seq) == {seq[i] : i \in 1..Len(seq)}

\* C1: in every quiescent state, each deployment the registry reports as
\* running has a container id and a container named <prefix>-<id> in the
\* driver's sandbox listing.  (The claim speaks of every state; the
\* quiescent states are among them.)
C1_RunningHasContainer ==
    Quiescent =>
        \A k \in DOMAIN deployments :
            deployments[k].status = "running" =>
                /\ deployments[k].container_id # 0
                /\ ContainerName(k) \in Range(ListSandboxContainers(containers))

\* C2: a deploy of id K that follows an earlier deploy of K (or none) and
\* meets no engine error answers deployed and leaves what a single deploy
\* with its own parameters leaves: the container named <prefix>-K is the new
\* one, with the request's image and labels, the container found before is
\* gone, and the registry's record for K carries the request's image and the
\* new container's id.
C2_RedeployReplaces ==
    \A h \in Handlers :
        LET rec == handlers[h]
            name == ContainerName(rec.id)
        IN  (rec.pc = "done" /\ rec.op = "deploy" /\ ~rec.fault) =>
                /\ rec.resp = "deployed"
                /\ name \in DOMAIN containers
                /\ containers[name] = NewContainer(rec.cid, rec.id, rec.image)
                /\ rec.cid # rec.existing
                /\ \A n \in DOMAIN containers : containers[n].id # rec.existing
                /\ Cardinality({n \in DOMAIN containers : containers[n].id = rec.cid}) = 1
                /\ rec.id \in DOMAIN deployments
                /\ deployments[rec.id] = NewDeployment(rec.id, rec.image, rec.cid)

\* C2 witness: a deploy has answered deployed after replacing the container
\* of an earlier deploy, with the second image.
C2_Witness ==
    \E h \in Handlers :
        /\ handlers[h].pc = "done" /\ handlers[h].op = "deploy"
        /\ handlers[h].resp = "deployed"
        /\ handlers[h].existing # 0
        /\ handlers[h].image = "img2"

\* C3: a teardown of K that meets no engine error answers removed and
\* leaves neither the container nor the registry record, whether or not the
\* container was found; and no step of a teardown that starts from a state
\* with neither container nor record changes the containers or the registry.
C3_TeardownIdempotent ==
    /\ [](\A h \in Handlers :
            LET rec == handlers[h]
            IN  (rec.pc = "done" /\ rec.op = "teardown" /\ ~rec.fault) =>
                    /\ rec.resp = "removed"
                    /\ ContainerName(rec.id) \notin DOMAIN containers
                    /\ rec.id \notin DOMAIN deployments)
    /\ [][\A h \in Handlers :
            (/\ handlers[h].op = "teardown"
             /\ handlers'[h] # handlers[h]
             /\ ContainerName(handlers[h].id) \notin DOMAIN containers
             /\ handlers[h].id \notin DOMAIN deployments)
            => (containers' = containers /\ deployments' = deployments)]_vars

\* C3 witness: a teardown answered removed for a container that was not found,
\* after containers had been deployed.
C3_Witness ==
    \E h \in Handlers :
        /\ handlers[h].pc = "done" /\ handlers[h].op = "teardown"
        /\ handlers[h].resp = "removed"
        /\ handlers[h].existing = 0
        /\ nextCid > 1

\* C4: when a reaper cycle has ended without a failure, no tracked
\* deployment has TTL > 0 and age >= TTL, and every live sandbox-labelled
\* container belongs to a tracked deployment id (the id of its
\* sandbox.path_prefix label); so an untracked labelled container that an
\* external process started has been removed.
C4_CycleLeavesNoExpiredNoOrphan ==
    \A r \in Runners :
        (/\ runners[r].pc = "done"
         /\ runners[r].result.failed_count = 0
         /\ runners[r].result.errors = <<>>) =>
            /\ \A i \in 1..Len(tracked) :
                    ~(tracked[i].ttl > 0 /\ now - tracked[i].created_at >= tracked[i].ttl)
            /\ \A n \in DOMAIN containers :
                    containers[n].sandbox => containers[n].path_prefix \in TrackedIds(tracked)

\* C5: the expire phase tears down a tracked deployment only if its
\* ttl_minutes > 0 and its age is at least ttl_minutes.
C5_ExpiresOnlyPositiveTtl ==
    \A r \in Runners :
        LET rec == runners[r]
        IN  (rec.pc \in {"e_get", "e_remove"} /\ rec.expired[rec.idx] \in TrackedIds(tracked)) =>
                LET e == TrackedEntry(tracked, rec.expired[rec.idx])
                IN  e.ttl > 0 /\ now - e.created_at >= e.ttl

\* C6: the step in which a cycle counts deployment K (TTL > 0) as expired
\* leaves K without container, untracked by the reaper and dropped from the
\* deployment registry that the API reads.
C6_ExpiryDropsRegistry ==
    [][\A r \in Runners :
        LET rec == runners[r]
        IN  (/\ rec.pc \in {"e_get", "e_remove"}
             /\ runners'[r].er.expired_count = rec.er.expired_count + 1
             /\ rec.expired[rec.idx] \in TrackedIds(tracked)
             /\ TrackedEntry(tracked, rec.expired[rec.idx]).ttl > 0) =>
                /\ ContainerName(rec.expired[rec.idx]) \notin DOMAIN containers'
                /\ rec.expired[rec.idx] \notin TrackedIds(tracked')
                /\ ContainerName(rec.expired[rec.idx]) \in Range(runners'[r].er.containers_removed)
                /\ rec.expired[rec.idx] \notin DOMAIN deployments']_vars

\* C7: a teardown that raises in the expire phase leaves the tracked map as
\* it is, adds one to failed_count and one error entry naming the container,
\* and the loop goes on to the next expired deployment (or to the orphan
\* phase after the last); every cycle that starts takes up each tracked
\* deployment with TTL > 0 and age >= TTL, so the failed one is tried again;
\* and a teardown that returns leaves its deployment untracked.
C7_FailedTeardownStaysTracked ==
    [][\A r \in Runners :
        LET rec == runners[r]
            after == runners'[r]
        IN  /\ (rec.pc \in {"e_get", "e_remove"}
                /\ after.er.failed_count # rec.er.failed_count) =>
                    /\ tracked' = tracked
                    /\ after.er.failed_count = rec.er.failed_count + 1
                    /\ after.er.errors =
                            Append(rec.er.errors, ContainerName(rec.expired[rec.idx]))
                    /\ after.er.expired_count = rec.er.expired_count
                    /\ IF rec.idx < Len(rec.expired)
                       THEN after.pc = "e_get" /\ after.idx = rec.idx + 1
                            /\ after.expired = rec.expired
                       ELSE after.pc = "o_list"
            /\ (rec.pc \in {"idle", "l_sleep"} /\ after.pc \notin {"idle", "l_sleep"}) =>
                    \A i \in 1..Len(tracked) :
                        (tracked[i].ttl > 0 /\ now - tracked[i].created_at >= tracked[i].ttl)
                            => tracked[i].id \in Range(after.expired)
            /\ (rec.pc \in {"e_get", "e_remove"}
                /\ after.er.expired_count # rec.er.expired_count) =>
                    rec.expired[rec.idx] \notin TrackedIds(tracked')]_vars

\* C7 witness: in one cycle the teardown of the first expired deployment
\* raised and that deployment is still tracked, and the second one, whose
\* teardown had raised in an earlier cycle, was torn down and is untracked.
C7_Witness ==
    \E r \in Runners :
        LET rec == runners[r]
        IN  /\ Len(rec.expired) = 2
            /\ ContainerName(rec.expired[1]) \in Range(rec.er.errors)
            /\ rec.expired[1] \in TrackedIds(tracked)
            /\ ContainerName(rec.expired[2]) \in Range(rec.er.containers_removed)
            /\ rec.expired[2] \in failedEver
            /\ rec.expired[2] \notin TrackedIds(tracked)

\* C8: at most one reaper cycle is executing at any time.
C8_OneCycleAtATime == Cardinality({r \in Runners : InCycle(r)}) <= 1

\* C9: whenever the orphan phase decides to tear a listed container down,
\* that container's deployment id is not in the reaper's tracked set at that
\* moment.
C9_OrphanNotTracked ==
    [][\A r \in Runners :
        (/\ runners'[r].pc = "o_get"
         /\ (runners[r].pc # "o_get" \/ runners'[r].idx # runners[r].idx)) =>
            DeploymentIdOf(runners'[r].listing[runners'[r].idx]) \notin TrackedIds(tracked')]_vars

\* C10: after a deploy of K has answered deployed, the reaper tracks K with
\* the TTL of K's registry record.  (Of the claim's lockstep, the part that
\* is the deploy handler's to keep.)
C10_DeployRegisters ==
    \A h \in Handlers :
        LET rec == handlers[h]
        IN  (rec.pc = "done" /\ rec.op = "deploy" /\ rec.resp = "deployed") =>
                /\ rec.id \in TrackedIds(tracked)
                /\ rec.id \in DOMAIN deployments
                /\ TrackedEntry(tracked, rec.id).ttl = deployments[rec.id].ttl_minutes

\* C11: when a broadcast has returned, the sinks that received its event
\* are the sinks subscribed to its deployment when it started, less those
\* whose send raised and those whose send exceeded the send-deadline; and
\* no sink of another deployment has received it.
C11_ReceiversAreStartMinusFailed ==
    \A b \in 1..Len(casts) :
        casts[b].pc = "done" =>
            /\ {s \in Sinks : b \in Range(inbox[s])} =
                    (Range(casts[b].subscribers) \ casts[b].raised) \ casts[b].late
            /\ \A s \in Sinks : b \in Range(inbox[s]) => sinks[s].dep = casts[b].dep

\* C12: in every sink's inbox, two events of the same publisher stand in
\* the order in which that publisher emitted them.
C12_PublisherOrder ==
    \A s \in Sinks : \A i, j \in 1..Len(inbox[s]) :
        (i < j /\ casts[inbox[s][i]].pub = casts[inbox[s][j]].pub)
            => inbox[s][i] < inbox[s][j]

\* C12 witness: a sink has received two events of one publisher and,
\* between or before them, an event of the other publisher out of the
\* global order of emission.
C12_Witness ==
    \E s \in Sinks :
        /\ \E i, j \in 1..Len(inbox[s]) :
                i < j /\ casts[inbox[s][i]].pub = casts[inbox[s][j]].pub
        /\ \E i, j \in 1..Len(inbox[s]) : i < j /\ inbox[s][i] > inbox[s][j]

\* the error a failed attempt leaves, by kind of outcome
ErrorOf(outcome) ==
    IF outcome.kind = "status" THEN <<"HTTP", outcome.code>>
    ELSE IF outcome.kind = "timeout" THEN <<"Timeout", 0>>
    ELSE <<outcome.kind, 0>>

HistoryOf(h, d) == IF d \in DOMAIN h THEN h[d] ELSE <<>>

\* C13: a delivery that ends in success made exactly one more attempt than
\* it had failures, no more than retry_count in all, its last answer was
\* the 2xx that its single record carries with success = true; no attempt
\* is made once the delivery has ended; and emit returns and stores
\* exactly one record for each delivery.
C13_SuccessOnAttemptK ==
    /\ [](\A e \in Emitters : \A i \in 1..Len(emits[e].invs) :
            LET inv == emits[e].invs[i]
            IN  /\ (inv.pc = "done" /\ inv.out[1].success) =>
                        /\ inv.posts = inv.fails + 1
                        /\ inv.posts <= inv.retry_count
                        /\ inv.lastOutcome.kind = "status"
                        /\ IsSuccess(inv.lastOutcome.code)
                        /\ Len(inv.out) = 1
                        /\ inv.out[1].status_code = inv.lastOutcome.code
                /\ (emits[e].pc = "done") =>
                        /\ Len(emits[e].result) = Len(emits[e].invs)
                        /\ emits[e].result[i] = inv.out[1])
    /\ [][\A e \in Emitters :
            /\ \A i \in 1..Len(emits[e].invs) :
                    (emits[e].invs[i].pc = "done" /\ i <= Len(emits'[e].invs))
                        => emits'[e].invs[i].posts = emits[e].invs[i].posts
            /\ (emits[e].pc = "gather" /\ emits'[e].pc = "done") =>
                    HistoryOf(history', emits[e].dep) =
                        HistoryOf(history, emits[e].dep) \o emits'[e].result]_vars

\* C13 witness: a delivery succeeded on its third attempt.
C13_Witness ==
    \E e \in Emitters : \E i \in 1..Len(emits[e].invs) :
        LET inv == emits[e].invs[i]
        IN  /\ emits[e].pc = "done"
            /\ inv.out[1].success
            /\ inv.posts = 3
            /\ inv.fails = 2

\* C14: a delivery never makes more than retry_count attempts; each
\* failed attempt but the last is followed by the delay and then by the
\* next attempt, the last by no delay; a delivery ends without success
\* only after retry_count failed attempts, and its record then carries the
\* error of the last attempt.
C14_RetriesBounded ==
    \A e \in Emitters : \A i \in 1..Len(emits[e].invs) :
        LET inv == emits[e].invs[i]
        IN  /\ inv.posts <= inv.retry_count
            /\ inv.pc = "post" => (inv.fails = inv.posts /\ inv.sleeps = inv.posts)
            /\ inv.pc = "sleep" =>
                    /\ inv.posts < inv.retry_count
                    /\ inv.fails = inv.posts
                    /\ inv.sleeps = inv.posts - 1
            /\ (inv.pc = "fail" \/ (inv.pc = "done" /\ ~inv.out[1].success)) =>
                    /\ inv.posts = inv.retry_count
                    /\ inv.fails = inv.retry_count
                    /\ inv.sleeps = inv.retry_count - 1
            /\ (inv.pc = "done" /\ ~inv.out[1].success) =>
                    /\ inv.lastOutcome.kind # "none"
                    /\ inv.out[1].error = ErrorOf(inv.lastOutcome)

\* C14 witness: a delivery has failed for good, the last of its
\* retry_count attempts by a timeout after an HTTP 500 before it.
C14_Witness ==
    \E e \in Emitters : \E i \in 1..Len(emits[e].invs) :
        LET inv == emits[e].invs[i]
        IN  /\ inv.pc = "done"
            /\ ~inv.out[1].success
            /\ inv.out[1].error = <<"Timeout", 0>>
            /\ inv.out[1].status_code = 500
            /\ inv.posts = retry_count_default

\* C15: emit never raises to its caller, and when it has returned, the
\* record of every delivery whose attempts all failed is in the returned
\* list and in the deployment's invocation history, with success = false.
C15_EmitNeverFails ==
    \A e \in Emitters :
        /\ emits[e].pc # "raised"
        /\ \A i \in 1..Len(emits[e].invs) : emits[e].invs[i].pc # "raised"
        /\ emits[e].pc = "done" =>
                \A i \in 1..Len(emits[e].invs) :
                    LET inv == emits[e].invs[i]
                    IN  inv.fails = inv.retry_count =>
                            /\ ~inv.out[1].success
                            /\ inv.out[1] \in Range(HistoryOf(history, emits[e].dep))
                            /\ inv.out[1] \in Range(emits[e].result)

\* C15 witness: emit has returned although the last attempt of one of its
\* deliveries ended in an exception that is no httpx error.
C15_Witness ==
    \E e \in Emitters : \E i \in 1..Len(emits[e].invs) :
        LET inv == emits[e].invs[i]
        IN  /\ emits[e].pc = "done"
            /\ inv.fails = inv.retry_count
            /\ inv.lastOutcome.kind = "exception"
            /\ inv.out[1] \in Range(HistoryOf(history, emits[e].dep))

\* the artifacts that were saved and neither deleted nor altered on disk
Intact == (DOMAIN saved) \ touched

\* C16: every artifact saved and not since deleted or altered has its row
\* and a file at the row's path that hashes to the row's sha256; a get of
\* it returns the saved bytes with the metadata save returned; a list of
\* its deployment contains that metadata.
C16_SavedRoundTrip ==
    /\ \A i \in Intact :
          /\ i \in DOMAIN rows
          /\ MetadataOf(rows[i]) = saved[i].metadata
          /\ rows[i].path \in DOMAIN files
          /\ Sha256(files[rows[i].path]) = rows[i].sha256
          /\ files[rows[i].path] = saved[i].content
    /\ \A c \in StoreCallers :
          LET op == storeOps[c]
          IN  op.pc = "done" /\ ~op.fault =>
                /\ op.op = "get" /\ op.id \in Intact =>
                      /\ op.resp = "200"
                      /\ op.result.kind = "artifact"
                      /\ op.result.content = saved[op.id].content
                      /\ op.result.items = <<saved[op.id].metadata>>
                /\ op.op = "list" =>
                      \A i \in Intact :
                          saved[i].metadata.deployment_id = op.dep =>
                              saved[i].metadata \in Range(op.result.items)

\* C16 witness: a get has returned the two bytes of an intact artifact
\* while another intact artifact of the same deployment exists.
C16_Witness ==
    \E c \in StoreCallers :
        LET op == storeOps[c]
        IN  /\ op.pc = "done" /\ op.op = "get" /\ op.resp = "200"
            /\ op.id \in Intact
            /\ op.result.content = <<1, 2>>
            /\ \E j \in Intact : j # op.id /\ rows[j].deployment_id = rows[op.id].deployment_id

\* C17: a delete that returns answers true exactly when it found a row,
\* and then row and file are gone; a get of a saved id whose row is gone
\* answers not-found; a delete that finds no row changes neither rows nor
\* files and answers false.
C17_DeleteThenNotFound ==
    /\ [](\A c \in StoreCallers :
            LET op == storeOps[c]
            IN  op.pc = "done" /\ op.resp # "500" =>
                  /\ op.op = "delete" =>
                        /\ op.result.kind = "bool"
                        /\ op.result.ok <=> op.hadRow
                        /\ op.resp = IF op.result.ok THEN "200" ELSE "404"
                        /\ op.result.ok =>
                              op.id \notin DOMAIN rows /\ op.path \notin DOMAIN files
                  /\ op.op = "get" /\ op.id \in DOMAIN saved /\ op.id \notin DOMAIN rows =>
                        op.resp = "404" /\ op.result = NoResult)
    /\ [][\A c \in StoreCallers :
            /\ storeOps[c].op = "delete"
            /\ storeOps[c].pc = "d_select"
            /\ storeOps[c].id \notin DOMAIN rows
            /\ storeOps'[c] # storeOps[c]
            => /\ rows' = rows
               /\ files' = files
               /\ storeOps'[c].pc = "done"
               /\ storeOps'[c].resp = "500" \/ ~storeOps'[c].result.ok]_vars

\* C17 witness: a second delete of a saved and deleted artifact has
\* answered false; the row and the file are gone.
C17_Witness ==
    \E c \in StoreCallers :
        LET op == storeOps[c]
        IN  /\ op.pc = "done" /\ op.op = "delete" /\ op.resp = "404"
            /\ ~op.result.ok
            /\ op.id \in DOMAIN saved
            /\ op.id \notin DOMAIN rows
            /\ saved[op.id].metadata.path \notin DOMAIN files

C19_NoRowWithoutFile ==
    /\ [](\A c \in StoreCallers :
            LET op == storeOps[c]
            IN  op.op = "save" =>
                  /\ op.pc \in {"s_write", "s_insert"} => op.id \notin DOMAIN rows
                  /\ op.pc = "done" /\ op.resp # "200" => op.id \notin DOMAIN rows)
    /\ [][\A i \in ArtifactIds :
            i \notin DOMAIN rows /\ i \in DOMAIN rows' =>
                \E c \in StoreCallers :
                    /\ storeOps[c].op = "save" /\ storeOps[c].id = i
                    /\ rows'[i].path \in DOMAIN files'
                    /\ files'[rows'[i].path] = storeOps[c].content
                    /\ Len(files'[rows'[i].path]) = rows'[i].size
                    /\ Sha256(files'[rows'[i].path]) = rows'[i].sha256]_vars

\* C19 witness: one save has inserted its row while another, whose write
\* stopped short, has left a shorter file and no row.
C19_Witness ==
    \E c, o \in StoreCallers :
        /\ storeOps[c].op = "save" /\ storeOps[c].pc = "done" /\ storeOps[c].resp = "200"
        /\ storeOps[c].id \in DOMAIN rows
        /\ storeOps[o].op = "save" /\ storeOps[o].pc = "done" /\ storeOps[o].resp = "500"
        /\ storeOps[o].path \in DOMAIN files
        /\ Len(files[storeOps[o].path]) < Len(storeOps[o].content)
        /\ storeOps[o].id \notin DOMAIN rows

\* C20: with a secret configured, a deploy or teardown request whose
\* header is absent or differs from the secret is answered 401 by the step
\* that receives it, which changes neither containers nor registry, and
\* the request never reaches a driver call; a request with the matching
\* header, or any request when the secret is empty, is never answered 401
\* and goes on to its first driver call.
C20_SecretChecked ==
    /\ [](\A h \in Handlers :
            LET rec == handlers[h]
                bad == webhook_secret # "" /\ rec.header # <<webhook_secret>>
            IN  rec.op # "none" =>
                  /\ bad => rec.pc = "done" /\ rec.resp = "401"
                  /\ ~bad => rec.resp # "401")
    /\ [][\A h \in Handlers :
            handlers[h].pc = "idle" /\ handlers'[h].pc # "idle" =>
                LET rec == handlers'[h]
                    bad == webhook_secret # "" /\ rec.header # <<webhook_secret>>
                IN  /\ containers' = containers
                    /\ deployments' = deployments
                    /\ nextCid' = nextCid
                    /\ ~bad => rec.pc = IF rec.op = "deploy" THEN "d_get" ELSE "t_get"]_vars

\* C20 witness: under secret k1 a deployment made with the matching header
\* is stored, and a teardown of it sent without the header stands answered
\* 401 while the deployment and its container are still there.
C20_Witness ==
    /\ webhook_secret = "k1"
    /\ <<"a">> \in DOMAIN deployments
    /\ containers # <<>>
    /\ \E h \in Handlers :
          /\ handlers[h].op = "teardown" /\ handlers[h].header = <<>>
          /\ handlers[h].pc = "done" /\ handlers[h].resp = "401"
          /\ handlers[h].id = <<"a">>

\* C21: a deploy that reaches the registry for an id already present fails
\* (AlreadyExists) and leaves the registry as it was; for an absent id it
\* inserts a record, and that record is in state pending.
C21_ReserveRejectsPresentId ==
    [][\A h \in Handlers :
         handlers[h].op = "deploy" /\ handlers[h].pc = "d_store" /\ handlers'[h].pc = "done" =>
            LET k == handlers[h].id
            IN  IF k \in DOMAIN deployments
                THEN deployments' = deployments /\ handlers'[h].resp # "deployed"
                ELSE k \in DOMAIN deployments' /\ deployments'[k].status = "pending"]_vars

\* the lifecycle state of deployment k as the registry shows it; an id
\* without a record has none yet or has been removed
LifecycleState(ds, k) == IF k \in DOMAIN ds THEN ds[k].status ELSE "absent"

\* the transition table: a record is created pending and is dropped from
\* stopping; failed is reached from every state that is not terminal
TableAllows(from, to) ==
    \/ from = "absent" /\ to = "pending"
    \/ from = "pending" /\ to = "pulling"
    \/ from = "pulling" /\ to = "starting"
    \/ from = "starting" /\ to = "running"
    \/ from = "running" /\ to \in {"stopping", "unhealthy"}
    \/ from = "unhealthy" /\ to \in {"running", "stopping"}
    \/ from = "stopping" /\ to \in {"removed", "absent"}
    \/ from \in {"pending", "pulling", "starting", "running", "unhealthy", "stopping"}
          /\ to = "failed"

\* C22: every step that changes the lifecycle state of a deployment makes
\* a transition of the table.
C22_TransitionsFollowTable ==
    [][\A k \in Ids :
         LifecycleState(deployments', k) # LifecycleState(deployments, k) =>
            TableAllows(LifecycleState(deployments, k), LifecycleState(deployments', k))]_vars

\* the position of event b in the inbox of sink s (0: not received)
PlaceOf(s, b) ==
    IF b \in Range(inbox[s]) THEN CHOOSE i \in 1..Len(inbox[s]) : inbox[s][i] = b ELSE 0

\* C25: two sinks of one deployment that both received two events received
\* them in the same relative order.
C25_SameOrderForAllSinks ==
    \A s, t \in Sinks : \A a, b \in 1..Len(casts) :
        (/\ a # b
         /\ casts[a].dep = casts[b].dep
         /\ PlaceOf(s, a) # 0 /\ PlaceOf(s, b) # 0
         /\ PlaceOf(t, a) # 0 /\ PlaceOf(t, b) # 0)
        => (PlaceOf(s, a) < PlaceOf(s, b) <=> PlaceOf(t, a) < PlaceOf(t, b))

\* the subscribers of deployment d
Subscribed(conns, d) == IF d \in DOMAIN conns THEN Range(conns[d]) ELSE {}

\* C26: a sink whose send exceeded the send-deadline is marked for
\* disconnection by that broadcast, and is no longer subscribed when the
\* broadcast has returned.
C26_SlowSinkIsDropped ==
    \A b \in 1..Len(casts) :
        /\ casts[b].late \subseteq Range(casts[b].disconnected)
        /\ casts[b].pc = "done" => casts[b].late \cap Subscribed(connections, casts[b].dep) = {}

\* C27: a step of a broadcast that is still sending removes no subscriber;
\* when the sends are over every subscriber of the snapshot has been
\* attempted and those whose send did not raise have the event; and at the
\* step that ends the broadcast no sink whose send raised is subscribed,
\* while every sink of the snapshot whose sends never raised and whose
\* endpoint did not disconnect it still is.
C27_FailedSinkRemovedAfterBroadcast ==
    /\ [](\A b \in 1..Len(casts) :
            casts[b].pc \in {"cleanup", "done"} =>
                /\ casts[b].received \cup casts[b].raised = Range(casts[b].subscribers)
                /\ casts[b].received \cap casts[b].raised = {}
                /\ \A ws \in casts[b].received : b \in Range(inbox[ws]))
    /\ [][\A b \in 1..Len(casts) :
            /\ (casts[b].pc = "send" /\ casts'[b] # casts[b]) => connections' = connections
            /\ (casts[b].pc # "done" /\ casts'[b].pc = "done") =>
                  /\ casts'[b].raised \cap Subscribed(connections', casts[b].dep) = {}
                  /\ \A ws \in Range(casts[b].subscribers) :
                        (/\ sinks[ws].state # "gone"
                         /\ \A o \in 1..Len(casts) : ws \notin casts'[o].raised)
                        => ws \in Subscribed(connections', casts[b].dep)]_vars

\* C27 witness: a broadcast has returned whose first send raised and whose
\* second subscriber has the event and is still subscribed, the first no
\* longer.
C27_Witness ==
    \E b \in 1..Len(casts) :
        LET c == casts[b]
        IN  /\ c.pc = "done" /\ Len(c.subscribers) = 2
            /\ c.subscribers[1] \in c.raised
            /\ b \in Range(inbox[c.subscribers[2]])
            /\ c.subscribers[2] \in Subscribed(connections, c.dep)
            /\ c.subscribers[1] \notin Subscribed(connections, c.dep)

\* C24: no reaper cycle ends in an exception, and the result of a cycle
\* that has ended lists an error for every failure it counted.
C24_ReaperNeverPropagates ==
    \A r \in Runners :
        /\ runners[r].pc # "raised"
        /\ runners[r].pc = "done" =>
              Len(runners[r].result.errors) >= runners[r].result.failed_count


\* C23 -- every log stream that ends has produced exactly one close frame and
\* it is the last frame; a stream that has not ended has produced none. When
\* the container is not found the frames are one error frame with that reason
\* and then close; on another exception there is exactly one error frame,
\* directly before close; without an exception there is none. The data
\* frames are, in order, the decodable lines read that have a character that
\* is no whitespace, each without its outer whitespace, and no frame is
\* produced after close.
FramesOfKind(st, kind) == {i \in 1..Len(st.frames) : st.frames[i].kind = kind}
IsData(frame) == frame.kind = "data"
HasInk(line) == Decodable(line) /\ \E i \in 1..Len(line) : line[i] \notin Whitespace
Trimmed(text, line) ==
    /\ text # <<>>
    /\ text[1] \notin Whitespace
    /\ text[Len(text)] \notin Whitespace
    /\ \E a \in 1..Len(line) :
           /\ a + Len(text) - 1 <= Len(line)
           /\ text = SubSeq(line, a, a + Len(text) - 1)
           /\ \A i \in 1..Len(line) :
                  (i < a \/ i > a + Len(text) - 1) => line[i] \in Whitespace
StreamEnded(st) == st.pc \in {"y_close", "ended"}
StreamFramesRight(st) ==
    LET n == Len(st.frames)
        data == SelectSeq(st.frames, IsData)
        inked == SelectSeq(st.consumed, HasInk)
        failed == st.open = "not_found" \/ st.exception
    IN  /\ FramesOfKind(st, "close") = IF StreamEnded(st) THEN {n} ELSE {}
        /\ StreamEnded(st) => n > 0
        /\ st.open = "not_found" =>
               /\ ~st.exception
               /\ st.frames \in {<<ErrorFrame("not found")>>,
                                 <<ErrorFrame("not found"), CloseFrame>>}
        /\ st.open = "error" => st.exception
        /\ (\E i \in 1..Len(st.consumed) : ~Decodable(st.consumed[i])) => st.exception
        /\ Cardinality(FramesOfKind(st, "error")) = IF failed THEN 1 ELSE 0
        /\ \A i \in FramesOfKind(st, "error") :
               /\ i = n \/ (i = n - 1 /\ st.frames[n].kind = "close")
               /\ st.exception => st.frames[i] = ErrorFrame("exception")
        /\ Len(data) = Len(inked)
        /\ \A j \in 1..Len(data) : Trimmed(data[j].text, inked[j])
NothingAfterClose(g) ==
    LET before == streams[g].frames
        after == streams'[g].frames
    IN  /\ Len(after) >= Len(before)
        /\ SubSeq(after, 1, Len(before)) = before
        /\ (before # <<>> /\ before[Len(before)].kind = "close") => after = before
C23_CloseIsLastFrame ==
    /\ [](\A g \in Streamers : StreamFramesRight(streams[g]))
    /\ [][\A g \in Streamers : NothingAfterClose(g)]_vars
C23_Witness ==
    \E g \in Streamers :
        /\ streams[g].pc = "ended"
        /\ FramesOfKind(streams[g], "data") # {}
        /\ FramesOfKind(streams[g], "error") # {}
        /\ \E i \in 1..Len(streams[g].consumed) : ~HasInk(streams[g].consumed[i])

\* C28 -- when an emit stores its records, the history of the deployment
\* grows by one record for each HTTP attempt its deliveries made.
RECURSIVE PostsOf(_)
PostsOf(invs) == IF invs = <<>> THEN 0 ELSE invs[1].posts + PostsOf(Tail(invs))
C28_EachAttemptRecorded ==
    [][\A e \in Emitters :
            (emits[e].pc = "gather" /\ emits'[e].pc = "done") =>
                Len(GetHistory(history', emits[e].dep, 0))
                    = Len(GetHistory(history, emits[e].dep, 0)) + PostsOf(emits[e].invs)]_vars

\* C29 -- after an emit has stored its records, the history of the
\* deployment holds at most 100 records and get_history returns the records
\* of that emit, the most recent ones, first.
C29_HistoryNewestFirst ==
    [][\A e \in Emitters :
            (emits[e].pc = "gather" /\ emits'[e].pc = "done") =>
                LET got == GetHistory(history', emits[e].dep, GetHistoryLimitDefault)
                    newest == emits'[e].result
                IN  /\ Len(GetHistory(history', emits[e].dep, 0)) <= history_limit
                    /\ Len(got) >= Len(newest)
                    /\ \A i \in 1..Len(newest) : got[i] \in Range(newest)]_vars

\* C30 -- a step that removes a deployment, the teardown request deleting
\* its record or the reaper dropping its tracking entry, leaves no hook
\* registration and no invocation history for that id.
DeploymentRemoved(k) ==
    \/ k \in DOMAIN deployments /\ k \notin DOMAIN deployments'
    \/ /\ k \in TrackedIds(tracked) /\ k \notin TrackedIds(tracked')
       /\ \E r \in Runners : runners[r].pc = "e_remove"
C30_HooksRemovedWithDeployment ==
    [][\A k \in Ids :
            DeploymentRemoved(k) =>
                /\ GetHooks(hooks', k) = <<>>
                /\ GetHistory(history', k, GetHistoryLimitDefault) = <<>>]_vars

\* C31 -- when a request that changed the state of a deployment (deployed,
\* failed, removed) has been answered, an event for that deployment has been
\* published: a broadcast to its subscribers or an emit to its hooks.
EventPublished(k) ==
    \/ \E b \in 1..Len(casts) : casts[b].dep = k
    \/ \E e \in Emitters : emits[e].pc # "idle" /\ emits[e].dep = k
    \/ GetHistory(history, k, 0) # <<>>
C31_StateChangeEmitsEvent ==
    [][\A h \in Handlers :
            (/\ handlers[h].pc = "done"
             /\ handlers'[h].pc = "idle"
             /\ handlers[h].resp \in {"deployed", "failed", "removed"}) =>
                EventPublished(handlers[h].id)]_vars

\* C32 -- a store operation that has passed initialize() finds the artifacts
\* table and both indexes, also when other first callers are still
\* initializing; its own statement never fails for a missing table; the flag
\* is set only with the schema in place; and a call that entered with the
\* flag set runs no schema statement.
SchemaObjects == {"artifacts", "idx_artifacts_deployment", "idx_artifacts_sha256"}
C32_InitializeSafeForFirstCallers ==
    /\ initialized => schema = SchemaObjects
    /\ \A c \in StoreCallers :
           /\ starters[c].pc \in {"ready", "done"} => schema = SchemaObjects
           /\ starters[c].pc = "done" => starters[c].result = "ok"
           /\ starters[c].entered_initialized => starters[c].statements = 0
C32_Witness ==
    /\ \A c \in StoreCallers :
           starters[c].pc = "done" /\ ~starters[c].entered_initialized
    /\ \E c \in StoreCallers : starters[c].statements = 3

C34_ResultConsistent ==
    \A r \in Runners :
        runners[r].pc = "done" =>
            LET res == runners[r].result
                removed == res.containers_removed
            IN  /\ Len(removed) = res.expired_count + res.orphan_count
                /\ \A i, j \in 1..Len(removed) : removed[i] = removed[j] => i = j
                /\ res.failed_count = 0 <=> res.errors = <<>>

\* C35 -- the orphan phase removes no container that a deploy request has
\* started: neither the container a registry record carries (no record of
\* the model reaches its TTL) nor the one a deploy handler has just created
\* and is about to record.
StartedByDeploy(name, cid) ==
    \E k \in Ids :
        /\ name = ContainerName(k)
        /\ \/ k \in DOMAIN deployments /\ deployments[k].container_id = cid
           \/ \E h \in Handlers :
                  /\ handlers[h].pc = "d_store"
                  /\ handlers[h].id = k
                  /\ handlers[h].cid = cid
C35_OrphanPhaseSparesDeployed ==
    [][\A r \in Runners :
            (runners[r].pc = "o_remove" /\ containers' # containers) =>
                ~StartedByDeploy(runners[r].listing[runners[r].idx], runners[r].existing)]_vars

\* C36 -- once no deploy request is in flight, a registry record that says
\* running carries the id of the live container of that name.
C36_RecordCarriesLiveContainer ==
    (\A h \in Handlers : handlers[h].pc \in {"idle", "done"}) =>
        \A k \in DOMAIN deployments :
            deployments[k].status = "running" =>
                GetId(ContainerName(k)) = deployments[k].container_id

\* C37 -- when a deploy request that failed in the driver gets its answer,
\* the answer is status failed and the registry does not hold a running
\* record for its id with the id of a container that does not exist.
C37_FailedDeployLeavesNoStaleRecord ==
    [][\A h \in Handlers :
            (/\ handlers[h].op = "deploy"
             /\ handlers[h].pc \in {"d_get", "d_remove", "d_run"}
             /\ handlers'[h].pc = "done") =>
                LET k == handlers[h].id
                    name == ContainerName(k)
                IN  /\ handlers'[h].resp = "failed"
                    /\ (k \in DOMAIN deployments' /\ deployments'[k].status = "running") =>
                           /\ name \in DOMAIN containers'
                           /\ containers'[name].id = deployments'[k].container_id]_vars

\* C38 -- every delete call returns true or false, and no two delete calls
\* for the same artifact id return true (an artifact id is given out once).
DeleteDone(c) == storeOps[c].op = "delete" /\ storeOps[c].pc = "done"
C38_OneDeleteReturnsTrue ==
    /\ \A c \in StoreCallers : DeleteDone(c) => storeOps[c].result.kind = "bool"
    /\ \A c, d \in StoreCallers :
           (/\ c # d
            /\ DeleteDone(c) /\ DeleteDone(d)
            /\ storeOps[c].id = storeOps[d].id
            /\ storeOps[c].result.ok) => ~storeOps[d].result.ok

\* C39 -- at most one loop task is alive, and while the service is stopped
\* with no stop call pending no loop task is alive, so no cycle can run
\* before the next start call.
AliveTasks == {t \in LoopTasks : runners[t].pc # "idle"}
C39_OneLoopTaskNoneAfterStop ==
    /\ Cardinality(AliveTasks) <= 1
    /\ (~running /\ stopper = "idle") => AliveTasks = {}

\* C40 -- no sink whose connection handler has terminated is in a
\* subscriber list, and no deployment key has an empty subscriber list.
C40_NoSinkOfEndedHandler ==
    /\ \A s \in Sinks :
           sinks[s].state = "gone" =>
               \A d \in DOMAIN connections : s \notin Range(connections[d])
    /\ \A d \in DOMAIN connections : connections[d] # <<>>
====
